---------------------------- MODULE Spec2Model ----------------------------
(***************************************************************************)
(* College helpdesk chatbot: the message pipeline of src/app.py (chat),    *)
(* src/utils/guardrails.py (check_guardrails), src/utils/rule_engine.py    *)
(* (find_answer) and src/utils/ai_fallback.py (get_ai_response).           *)
(*                                                                         *)
(* Text is modelled by TLA+ strings, which are sequences of characters:    *)
(* Len, SubSeq and \o are Python's len, slicing and +.  Python's None is   *)
(* the reserved string None, which no input of the model can spell.        *)
(***************************************************************************)
EXTENDS Integers, Sequences, FiniteSets, TLC

(***************************************************************************)
(* Characters and the str methods the code uses                            *)
(***************************************************************************)
None == "<None>"

At(s, i) == SubSeq(s, i, i)

CharSet(s) == { At(s, i) : i \in 1..Len(s) }

LowerStr == "abcdefghijklmnopqrstuvwxyz"
UpperStr == "ABCDEFGHIJKLMNOPQRSTUVWXYZ"
DigitStr == "0123456789"

LowerChars == CharSet(LowerStr)
UpperChars == CharSet(UpperStr)
DigitChars == CharSet(DigitStr)
LetterChars == LowerChars \cup UpperChars
\* re's \w for the characters of the model: letters, digits and underscore
WordChars == LetterChars \cup DigitChars \cup {"_"}
\* re's \s and str.strip()'s whitespace
SpaceChars == {" ", "\t", "\n"}

LowerOf == [c \in UpperChars |->
              At(LowerStr, CHOOSE i \in 1..Len(UpperStr) : At(UpperStr, i) = c)]
UpperOf == [c \in LowerChars |->
              At(UpperStr, CHOOSE i \in 1..Len(LowerStr) : At(LowerStr, i) = c)]

LowerChar(c) == IF c \in UpperChars THEN LowerOf[c] ELSE c
UpperChar(c) == IF c \in LowerChars THEN UpperOf[c] ELSE c

\* re.sub(r'[^\w\s]', '', c) on one character
KeepWordOrSpace(c) == IF c \in WordChars \cup SpaceChars THEN c ELSE ""

\* What the character c becomes under a conversion: lower(), upper(), or the re.sub
\* that removes what is neither a word character nor whitespace
MapChar(conversion, c) ==
    CASE conversion = "lower" -> LowerChar(c)
      [] conversion = "upper" -> UpperChar(c)
      [] conversion = "clean" -> KeepWordOrSpace(c)

RECURSIVE MapStr(_, _, _, _)
\* s[lo..hi] with every character converted (halving keeps the recursion shallow)
MapStr(conversion, s, lo, hi) ==
    IF lo > hi THEN ""
    ELSE IF lo = hi THEN MapChar(conversion, At(s, lo))
    ELSE LET mid == (lo + hi) \div 2
         IN  MapStr(conversion, s, lo, mid) \o MapStr(conversion, s, mid + 1, hi)

\* str.lower()
Lower(s) == MapStr("lower", s, 1, Len(s))
\* str.upper()
Upper(s) == MapStr("upper", s, 1, Len(s))

RECURSIVE SkipSpaces(_, _, _)
\* The first position from i on, going by step, that holds no whitespace
SkipSpaces(s, i, step) ==
    IF i < 1 \/ i > Len(s) \/ At(s, i) \notin SpaceChars THEN i
    ELSE SkipSpaces(s, i + step, step)

\* str.strip()
Strip(s) == SubSeq(s, SkipSpaces(s, 1, 1), SkipSpaces(s, Len(s), -1))

\* str.isupper(): some cased character, and no lower-case one
IsUpperStr(s) ==
    /\ \E i \in 1..Len(s) : At(s, i) \in UpperChars
    /\ \A i \in 1..Len(s) : At(s, i) \notin LowerChars

\* w occurs in s at position i
StartsAt(s, w, i) ==
    /\ i >= 1
    /\ i + Len(w) - 1 <= Len(s)
    /\ SubSeq(s, i, i + Len(w) - 1) = w

\* Python's  w in s
Contains(s, w) == \E i \in 1..(Len(s) - Len(w) + 1) : StartsAt(s, w, i)

\* any(kw in s for kw in kws), kws a sequence of strings
ContainsAny(s, kws) == \E k \in 1..Len(kws) : Contains(s, kws[k])

\* re's \b at the gap before position p (1 <= p <= Len(s)+1)
WordBoundary(s, p) ==
    LET before == p > 1 /\ At(s, p - 1) \in WordChars
        after  == p <= Len(s) /\ At(s, p) \in WordChars
    IN  before # after

\* s[lo..hi] is non-empty and made of characters of cs only
AllIn(s, lo, hi, cs) == lo <= hi /\ \A k \in lo..hi : At(s, k) \in cs

\* re.search(pre + ".+" + post, s) for some post of posts: "." is any
\* character but a line break
SearchDotPlus(s, pre, posts) ==
    \E i \in 1..Len(s) :
        /\ StartsAt(s, pre, i)
        /\ \E j \in (i + Len(pre) + 1)..Len(s) :
               /\ \E p \in 1..Len(posts) : StartsAt(s, posts[p], j)
               /\ \A k \in (i + Len(pre))..(j - 1) : At(s, k) # "\n"

(***************************************************************************)
(* src/config.py                                                           *)
(***************************************************************************)
BLOCKED_WORDS ==
    << "hack", "cheat", "exploit", "crack", "breach",
       "inappropriate", "offensive", "abuse", "harass",
       "stupid", "idiot", "dumb",
       "kill", "attack", "threat", "bomb",
       "fake", "forge", "bribe" >>

PERSONAL_QUESTION_KEYWORDS ==
    << "girlfriend", "boyfriend", "wife", "husband", "married",
       "salary", "income", "how much earn", "personal life",
       "home address", "where does", "live", "phone number of",
       "age of", "how old is", "private", "secret" >>

OFF_TOPIC_KEYWORDS ==
    << "politics", "election", "vote", "government", "minister", "party",
       "religion", "god", "prayer", "temple", "church", "mosque",
       "dating", "movie", "cricket", "football", "game score",
       "gambling", "betting", "cryptocurrency", "bitcoin", "stock market",
       "personal advice", "relationship advice", "life advice",
       "illegal", "drugs", "alcohol" >>

FALLBACK_MESSAGE ==
    "I'm sorry, I couldn't find an answer to your question. Please contact the college admin office for further assistance."
OFF_TOPIC_MESSAGE ==
    "I can only help with college-related queries. Please ask questions about admissions, courses, fees, timings, faculty, or other college matters."
BLOCKED_CONTENT_MESSAGE ==
    "I cannot respond to this type of query. Please keep your questions appropriate and college-related."
PERSONAL_QUESTION_MESSAGE ==
    "I cannot provide personal information about individuals. For faculty contact details, please visit the college website or contact the admin office."
PRIVACY_MESSAGE ==
    "For your privacy and security, please don't share personal information like phone numbers, email addresses, or ID numbers in this chat."

(***************************************************************************)
(* src/utils/guardrails.py                                                 *)
(***************************************************************************)
MIN_MESSAGE_LENGTH == 2
MAX_MESSAGE_LENGTH == 500
SPAM_REPEAT_RUN == 6
SPAM_CAPS_LENGTH == 10
SPAM_PUNCTUATION_LIMIT == 10

EMPTY_INPUT_MESSAGE == "Please enter a message."
TOO_SHORT_MESSAGE == "Your message is too short. Please provide more details."
TOO_LONG_MESSAGE == "Your message is too long. Please keep it under 500 characters."
NO_TEXT_MESSAGE == "Please enter a valid message with some text."
SPAM_MESSAGE == "Please send a proper message without excessive repetition."

\* is_valid_input without its upper limit on the length: the properties of
\* input validation below must tell it from is_valid_input
is_valid_input_unbounded(message) ==
    LET cleaned == Strip(message)
    IN  IF message = "" \/ cleaned = ""
          THEN [is_valid |-> FALSE, error |-> EMPTY_INPUT_MESSAGE]
        ELSE IF Len(cleaned) < MIN_MESSAGE_LENGTH
          THEN [is_valid |-> FALSE, error |-> TOO_SHORT_MESSAGE]
        ELSE IF ~ \E i \in 1..Len(cleaned) : At(cleaned, i) \in LetterChars
          THEN [is_valid |-> FALSE, error |-> NO_TEXT_MESSAGE]
        ELSE [is_valid |-> TRUE, error |-> ""]

\* is_valid_input: (is_valid, error_message)
is_valid_input(message) ==
    LET cleaned == Strip(message)
    IN  IF message = "" \/ cleaned = ""
          THEN [is_valid |-> FALSE, error |-> EMPTY_INPUT_MESSAGE]
        ELSE IF Len(cleaned) < MIN_MESSAGE_LENGTH
          THEN [is_valid |-> FALSE, error |-> TOO_SHORT_MESSAGE]
        ELSE IF Len(cleaned) > MAX_MESSAGE_LENGTH
          THEN [is_valid |-> FALSE, error |-> TOO_LONG_MESSAGE]
        ELSE IF ~ \E i \in 1..Len(cleaned) : At(cleaned, i) \in LetterChars
          THEN [is_valid |-> FALSE, error |-> NO_TEXT_MESSAGE]
        ELSE [is_valid |-> TRUE, error |-> ""]

\* is_spam
is_spam(message) ==
    \* re.search(r'(.)\1{5,}', message)
    IF \E i \in 1..(Len(message) - SPAM_REPEAT_RUN + 1) :
           /\ At(message, i) # "\n"
           /\ \A k \in 1..(SPAM_REPEAT_RUN - 1) : At(message, i + k) = At(message, i)
      THEN TRUE
    ELSE IF Len(message) > SPAM_CAPS_LENGTH /\ IsUpperStr(message)
      THEN TRUE
    \* len(re.findall(r'[!?.,]', message)) > 10
    ELSE IF Cardinality({ i \in 1..Len(message) : At(message, i) \in {"!", "?", ".", ","} })
              > SPAM_PUNCTUATION_LIMIT
      THEN TRUE
    ELSE FALSE

\* contains_blocked_words looking for the words anywhere in the message
contains_blocked_words_anywhere(message) ==
    ContainsAny(Lower(message), BLOCKED_WORDS)

\* contains_blocked_words: re.search(r'\b' + word + r'\b', message.lower())
contains_blocked_words(message) ==
    LET message_lower == Lower(message)
    IN  \E w \in 1..Len(BLOCKED_WORDS) : \E i \in 1..Len(message_lower) :
            /\ StartsAt(message_lower, BLOCKED_WORDS[w], i)
            /\ WordBoundary(message_lower, i)
            /\ WordBoundary(message_lower, i + Len(BLOCKED_WORDS[w]))

\* is_personal_question
is_personal_question(message) ==
    LET message_lower == Lower(message)
    IN  IF ContainsAny(message_lower, PERSONAL_QUESTION_KEYWORDS) THEN TRUE
        ELSE \/ SearchDotPlus(message_lower, "what is ",
                              <<" phone", " number", " address", " salary">>)
             \/ SearchDotPlus(message_lower, "where does ", <<" live">>)
             \/ Contains(message_lower, "how old is")
             \/ SearchDotPlus(message_lower, "is ",
                              <<" married", " single", " dating">>)
             \/ SearchDotPlus(message_lower, "tell me about ", <<" personal">>)

\* is_off_topic
is_off_topic(message) == ContainsAny(Lower(message), OFF_TOPIC_KEYWORDS)

RECURSIVE DigitGroupEnds(_, _, _, _)
\* The positions just after n groups of four digits that start at i, each
\* group but the first preceded by at most one character of seps
DigitGroupEnds(s, i, n, seps) ==
    IF ~ (i + 3 <= Len(s) /\ AllIn(s, i, i + 3, DigitChars)) THEN {}
    ELSE IF n = 1 THEN {i + 4}
    ELSE DigitGroupEnds(s, i + 4, n - 1, seps)
         \cup (IF i + 4 <= Len(s) /\ At(s, i + 4) \in seps
                 THEN DigitGroupEnds(s, i + 5, n - 1, seps) ELSE {})

\* contains_personal_info
contains_personal_info(message) ==
    LET n == Len(message)
        \* r'\b[6-9]\d{9}\b'
        phone == \E i \in 1..(n - 9) :
                    /\ At(message, i) \in {"6", "7", "8", "9"}
                    /\ AllIn(message, i + 1, i + 9, DigitChars)
                    /\ WordBoundary(message, i)
                    /\ WordBoundary(message, i + 10)
        \* r'\b[A-Za-z0-9._%+-]+@[A-Za-z0-9.-]+\.[A-Z|a-z]{2,}\b'
        localChars == LetterChars \cup DigitChars \cup {".", "_", "%", "+", "-"}
        domainChars == LetterChars \cup DigitChars \cup {".", "-"}
        tldChars == LetterChars \cup {"|"}
        email == \E at \in 1..n :
                    /\ At(message, at) = "@"
                    /\ \E a \in 1..(at - 1) :
                           /\ AllIn(message, a, at - 1, localChars)
                           /\ WordBoundary(message, a)
                    /\ \E dot \in (at + 2)..n :
                           /\ At(message, dot) = "."
                           /\ AllIn(message, at + 1, dot - 1, domainChars)
                           /\ \E e \in (dot + 2)..n :
                                  /\ AllIn(message, dot + 1, e, tldChars)
                                  /\ WordBoundary(message, e + 1)
        \* r'\b\d{4}\s?\d{4}\s?\d{4}\b'
        aadhar == \E i \in 1..n :
                    /\ WordBoundary(message, i)
                    /\ \E e \in DigitGroupEnds(message, i, 3, SpaceChars) :
                           WordBoundary(message, e)
        \* r'\b\d{4}[\s-]?\d{4}[\s-]?\d{4}[\s-]?\d{4}\b'
        card == \E i \in 1..n :
                    /\ WordBoundary(message, i)
                    /\ \E e \in DigitGroupEnds(message, i, 4, SpaceChars \cup {"-"}) :
                           WordBoundary(message, e)
    IN  IF phone THEN TRUE
        ELSE IF email THEN TRUE
        ELSE IF aadhar THEN TRUE
        ELSE IF card THEN TRUE
        ELSE FALSE

\* The six checks in the order check_guardrails runs them
GUARDRAIL_CHECKS ==
    << "input_validation", "spam_detection", "blocked_words",
       "personal_question", "off_topic", "personal_info" >>

GuardrailFailure(n, text) ==
    [is_safe |-> FALSE, message |-> text, failed_check |-> GUARDRAIL_CHECKS[n],
     checks_run |-> SubSeq(GUARDRAIL_CHECKS, 1, n)]

\* Variants of check_guardrails that the properties below must tell from it:
\* the off-topic check run before the personal-question check,
check_guardrails_topic_before_personal(message) ==
    LET valid == is_valid_input(message)
    IN  IF ~ valid.is_valid THEN GuardrailFailure(1, valid.error)
        ELSE IF is_spam(message) THEN GuardrailFailure(2, SPAM_MESSAGE)
        ELSE IF contains_blocked_words(message)
          THEN GuardrailFailure(3, BLOCKED_CONTENT_MESSAGE)
        ELSE IF is_off_topic(message)
          THEN [is_safe |-> FALSE, message |-> OFF_TOPIC_MESSAGE,
                failed_check |-> "off_topic",
                checks_run |-> << "input_validation", "spam_detection",
                                  "blocked_words", "off_topic" >>]
        ELSE IF is_personal_question(message)
          THEN [is_safe |-> FALSE, message |-> PERSONAL_QUESTION_MESSAGE,
                failed_check |-> "personal_question",
                checks_run |-> << "input_validation", "spam_detection",
                                  "blocked_words", "off_topic", "personal_question" >>]
        ELSE IF contains_personal_info(message)
          THEN GuardrailFailure(6, PRIVACY_MESSAGE)
        ELSE [is_safe |-> TRUE, message |-> "", failed_check |-> None,
              checks_run |-> GUARDRAIL_CHECKS]

\* the denylist consulted only for messages that are not off-topic,
check_guardrails_topic_before_blocked(message) ==
    LET valid == is_valid_input(message)
    IN  IF ~ valid.is_valid THEN GuardrailFailure(1, valid.error)
        ELSE IF is_spam(message) THEN GuardrailFailure(2, SPAM_MESSAGE)
        ELSE IF is_off_topic(message) THEN GuardrailFailure(5, OFF_TOPIC_MESSAGE)
        ELSE IF contains_blocked_words(message)
          THEN GuardrailFailure(3, BLOCKED_CONTENT_MESSAGE)
        ELSE IF is_personal_question(message)
          THEN GuardrailFailure(4, PERSONAL_QUESTION_MESSAGE)
        ELSE IF contains_personal_info(message)
          THEN GuardrailFailure(6, PRIVACY_MESSAGE)
        ELSE [is_safe |-> TRUE, message |-> "", failed_check |-> None,
              checks_run |-> GUARDRAIL_CHECKS]

\* and the reply to a denylisted word quoting the message
check_guardrails_quoting(message) ==
    LET valid == is_valid_input(message)
    IN  IF ~ valid.is_valid THEN GuardrailFailure(1, valid.error)
        ELSE IF is_spam(message) THEN GuardrailFailure(2, SPAM_MESSAGE)
        ELSE IF contains_blocked_words(message)
          THEN GuardrailFailure(3, "I cannot respond to \"" \o message \o "\".")
        ELSE IF is_personal_question(message)
          THEN GuardrailFailure(4, PERSONAL_QUESTION_MESSAGE)
        ELSE IF is_off_topic(message) THEN GuardrailFailure(5, OFF_TOPIC_MESSAGE)
        ELSE IF contains_personal_info(message)
          THEN GuardrailFailure(6, PRIVACY_MESSAGE)
        ELSE [is_safe |-> TRUE, message |-> "", failed_check |-> None,
              checks_run |-> GUARDRAIL_CHECKS]

\* check_guardrails; checks_run records the checks the call evaluated
check_guardrails(message) ==
    LET valid == is_valid_input(message)
    IN  IF ~ valid.is_valid THEN GuardrailFailure(1, valid.error)
        ELSE IF is_spam(message) THEN GuardrailFailure(2, SPAM_MESSAGE)
        ELSE IF contains_blocked_words(message)
          THEN GuardrailFailure(3, BLOCKED_CONTENT_MESSAGE)
        ELSE IF is_personal_question(message)
          THEN GuardrailFailure(4, PERSONAL_QUESTION_MESSAGE)
        ELSE IF is_off_topic(message) THEN GuardrailFailure(5, OFF_TOPIC_MESSAGE)
        ELSE IF contains_personal_info(message)
          THEN GuardrailFailure(6, PRIVACY_MESSAGE)
        ELSE [is_safe |-> TRUE, message |-> "", failed_check |-> None,
              checks_run |-> GUARDRAIL_CHECKS]

(***************************************************************************)
(* src/utils/rule_engine.py: text preprocessing                            *)
(***************************************************************************)
\* A Python exception leaving the function that would have returned a string
KeyError == "<raise KeyError>"
AttributeError == "<raise AttributeError>"
IsRaise(v) == v \in {KeyError, AttributeError}

\* Python's truth value of a string or None
Truthy(v) == v # None /\ v # ""

\* The least q >= p such that s[p..q-1] lies in cs and s[q] does not (or ends s)
SkipWhile(s, p, cs) ==
    CHOOSE q \in p..(Len(s) + 1) :
        /\ \A k \in p..(q - 1) : At(s, k) \in cs
        /\ q > Len(s) \/ At(s, q) \notin cs

RECURSIVE SplitFrom(_, _)
\* str.split() of s[i..]: the maximal runs of non-whitespace, in order
SplitFrom(s, i) ==
    LET b == SkipWhile(s, i, SpaceChars)
    IN  IF b > Len(s) THEN << >>
        ELSE LET e == CHOOSE q \in (b + 1)..(Len(s) + 1) :
                          /\ \A k \in b..(q - 1) : At(s, k) \notin SpaceChars
                          /\ q > Len(s) \/ At(s, q) \in SpaceChars
             IN  << SubSeq(s, b, e - 1) >> \o SplitFrom(s, e)

Split(s) == SplitFrom(s, 1)

RECURSIVE Join(_, _)
\* sep.join(words)
Join(sep, words) ==
    IF words = << >> THEN ""
    ELSE IF Len(words) = 1 THEN words[1]
    ELSE words[1] \o sep \o Join(sep, Tail(words))

\* preprocess_text
preprocess_text(text) ==
    LET lowered == Lower(text)
        cleaned == MapStr("clean", lowered, 1, Len(lowered))
    IN  Join(" ", Split(cleaned))

STOP_WORDS ==
    { "i", "me", "my", "we", "our", "you", "your", "he", "she", "it",
      "the", "a", "an", "is", "are", "was", "were", "be", "been", "being",
      "have", "has", "had", "do", "does", "did", "will", "would", "could",
      "should", "can", "may", "might", "must", "shall", "to", "of", "in",
      "for", "on", "with", "at", "by", "from", "as", "into", "through",
      "and", "but", "or", "so", "if", "then", "than", "when", "where",
      "what", "which", "who", "whom", "this", "that", "these", "those",
      "am", "about", "please", "tell", "know", "want", "need", "like",
      "get", "give", "make", "how", "there", "here", "just", "also", "show" }

\* get_keywords: the words of the preprocessed text that are no stop words
get_keywords(text) ==
    SelectSeq(Split(preprocess_text(text)), LAMBDA w : w \notin STOP_WORDS)

\* kw in keywords, for a list of keywords
InList(kw, keywords) == \E k \in 1..Len(keywords) : keywords[k] = kw

\* any(kw in keywords for kw in kws), kws a set
AnyKeyword(kws, keywords) == \E k \in 1..Len(keywords) : keywords[k] \in kws

\* str(n) for n >= 0
RECURSIVE IntToStr(_)
IntToStr(n) ==
    IF n < 10 THEN At(DigitStr, n + 1)
    ELSE IntToStr(n \div 10) \o At(DigitStr, (n % 10) + 1)

(***************************************************************************)
(* src/utils/rule_engine.py: the stores                                    *)
(*                                                                         *)
(* A JSON object is a sequence of entries in file order (dicts iterate in  *)
(* insertion order); a key the object lacks is an empty sequence, which is *)
(* what admin_data.get(key, {}) or .get(key, []) gives.                    *)
(***************************************************************************)
EmptyAdminData ==
    [is_dict |-> TRUE, room_directory |-> << >>, timetables |-> << >>,
     last_updated |-> None, period_timings |-> << >>, notifications |-> << >>,
     exam_schedule |-> [is_empty |-> TRUE], faculty |-> << >>,
     custom_sections |-> << >>]

EmptyKnowledgeBase == [is_dict |-> TRUE, intents |-> << >>]

\* load_admin_data: the parsed file, or {} when it is missing or no JSON
load_admin_data(file) ==
    IF file.state = "ok" THEN file.data ELSE EmptyAdminData

\* load_knowledge_base: the parsed file, or {"intents": []}
load_knowledge_base(file) ==
    IF file.state = "ok" THEN file.data ELSE EmptyKnowledgeBase

(***************************************************************************)
(* src/utils/rule_engine.py: get_room_location                             *)
(***************************************************************************)
ROOM_LISTING_LIMIT == 10

\* The end (exclusive) of a match of r'room\s*(?:no\.?\s*)?' at i, or 0
RoomPrefixEnd(s, i) ==
    IF ~ StartsAt(s, "room", i) THEN 0
    ELSE LET p1 == SkipWhile(s, i + 4, SpaceChars)
         IN  IF StartsAt(s, "no", p1)
               THEN LET p2 == IF StartsAt(s, ".", p1 + 2) THEN p1 + 3 ELSE p1 + 2
                    IN  SkipWhile(s, p2, SpaceChars)
               ELSE p1

\* re.search(r'room\s*(?:no\.?\s*)?(\d+)', s).group(1), or None
SearchRoomNumber(s) ==
    LET hits == { i \in 1..Len(s) :
                    /\ RoomPrefixEnd(s, i) # 0
                    /\ RoomPrefixEnd(s, i) <= Len(s)
                    /\ At(s, RoomPrefixEnd(s, i)) \in DigitChars }
    IN  IF hits = {} THEN None
        ELSE LET i == CHOOSE h \in hits : \A g \in hits : h <= g
                 d == RoomPrefixEnd(s, i)
             IN  SubSeq(s, d, SkipWhile(s, d, DigitChars) - 1)

\* re.search(r'(\d{3})', s).group(1), or None
SearchThreeDigits(s) ==
    LET hits == { i \in 1..(Len(s) - 2) : AllIn(s, i, i + 2, DigitChars) }
    IN  IF hits = {} THEN None
        ELSE LET i == CHOOSE h \in hits : \A g \in hits : h <= g
             IN  SubSeq(s, i, i + 2)

\* re.search(r'(lab\s*\d+)', s).group(1), or None
SearchLabNumber(s) ==
    LET digitsAt(i) == SkipWhile(s, i + 3, SpaceChars)
        hits == { i \in 1..Len(s) :
                    /\ StartsAt(s, "lab", i)
                    /\ digitsAt(i) <= Len(s)
                    /\ At(s, digitsAt(i)) \in DigitChars }
    IN  IF hits = {} THEN None
        ELSE LET i == CHOOSE h \in hits : \A g \in hits : h <= g
             IN  SubSeq(s, i, SkipWhile(s, digitsAt(i), DigitChars) - 1)

\* The first of the three patterns that matched gives the token
FirstMatch(room_number, three_digits, lab_number) ==
    IF room_number # None THEN room_number
    ELSE IF three_digits # None THEN three_digits
    ELSE lab_number

ExtractRoomToken(query_lower) ==
    FirstMatch(SearchRoomNumber(query_lower), SearchThreeDigits(query_lower),
               SearchLabNumber(query_lower))

\* "Also check for exact room mentions": the first directory key that occurs
\* anywhere in the query replaces the token
MentionedRoomKey(room_directory, query_lower, room_num) ==
    LET hits == { k \in 1..Len(room_directory) :
                    Contains(query_lower, Lower(room_directory[k].key)) }
    IN  IF hits = {} THEN room_num
        ELSE room_directory[CHOOSE h \in hits : \A g \in hits : h <= g].key

RECURSIVE RoomListingLines(_, _)
RoomListingLines(room_directory, k) ==
    IF k > Len(room_directory) \/ k > ROOM_LISTING_LIMIT THEN ""
    ELSE "- **Room " \o room_directory[k].key \o "**: " \o room_directory[k].floor
         \o ", " \o room_directory[k].wing \o " (" \o room_directory[k].type \o ")\n"
         \o RoomListingLines(room_directory, k + 1)

RoomListing(room_directory) ==
    "**ROOM DIRECTORY:**\n\n" \o RoomListingLines(room_directory, 1)
    \o "\n...and more. Ask about a specific room number."

RoomInfoText(entry) ==
    "**Room " \o entry.key \o "**\n\n"
    \o "- **Floor:** " \o entry.floor \o "\n"
    \o "- **Wing:** " \o entry.wing \o "\n"
    \o "- **Type:** " \o entry.type \o "\n"
    \o "- **Capacity:** " \o entry.capacity \o " students\n"

RoomNotFoundText(room_num) ==
    "Room " \o room_num \o " not found in directory. Please check with the admin office."

\* The reply for the token room_num, which is None when no pattern matched
\* and no key is mentioned
RoomReply(room_directory, query_lower, room_num) ==
    LET found == { k \in 1..Len(room_directory) :
                     \/ Lower(room_directory[k].key) = Lower(room_num)
                     \/ room_directory[k].key = room_num }
    IN  IF ~ Truthy(room_num)
          THEN IF ContainsAny(query_lower, <<"room", "where", "location", "building">>)
                 THEN RoomListing(room_directory)
                 ELSE None
        ELSE IF found # {}
          THEN RoomInfoText(room_directory[CHOOSE h \in found : \A g \in found : h <= g])
        ELSE RoomNotFoundText(room_num)

\* get_room_location: a text, None, or an exception
get_room_location(admin_data, room_query) ==
    IF ~ admin_data.is_dict THEN AttributeError
    ELSE IF admin_data.room_directory = << >> THEN None
    ELSE RoomReply(admin_data.room_directory, Lower(room_query),
                   MentionedRoomKey(admin_data.room_directory, Lower(room_query),
                                    ExtractRoomToken(Lower(room_query))))

(***************************************************************************)
(* src/utils/rule_engine.py: the personalised lookups                      *)
(*                                                                         *)
(* A profile is None (is_none) or a dict holding the keys of has.          *)
(***************************************************************************)
NoProfile ==
    [is_none |-> TRUE, has |-> {}, dept |-> "", deptName |-> "",
     semester |-> "", section |-> ""]

\* profile.get(key)
ProfileGet(profile, key) == IF key \in profile.has THEN profile[key] ELSE None

\* not profile or not profile.get('dept')
ProfileLacksDept(profile) ==
    profile.is_none \/ profile.has = {} \/ ~ Truthy(ProfileGet(profile, "dept"))

\* profile.get('deptName', profile['dept'])
ProfileDeptName(profile) ==
    IF "deptName" \in profile.has THEN profile.deptName ELSE profile.dept

\* f"{profile['dept']}_{profile['semester']}_{profile['section']}"
TimetableKey(profile) ==
    IF {"dept", "semester", "section"} \subseteq profile.has
      THEN profile.dept \o "_" \o profile.semester \o "_" \o profile.section
      ELSE KeyError

\* key in d / d[key], for a dict given as a sequence of entries
HasKey(d, key) == \E k \in 1..Len(d) : d[k].key = key
Lookup(d, key) == d[CHOOSE k \in 1..Len(d) : d[k].key = key]

RECURSIVE PeriodLines(_, _)
\* for i, cls in enumerate(classes, 1): "- Period {i*2-1}-{i*2}: {cls}\n"
PeriodLines(classes, i) ==
    IF i > Len(classes) THEN ""
    ELSE "- Period " \o IntToStr(i * 2 - 1) \o "-" \o IntToStr(i * 2) \o ": "
         \o classes[i] \o "\n" \o PeriodLines(classes, i + 1)

RECURSIVE PeriodTimingLines(_, _)
PeriodTimingLines(period_timings, k) ==
    IF k > Len(period_timings) THEN ""
    ELSE "- Period " \o period_timings[k].period \o ": " \o period_timings[k].start
         \o " - " \o period_timings[k].end \o "\n"
         \o PeriodTimingLines(period_timings, k + 1)

WEEK_DAYS == << "Monday", "Tuesday", "Wednesday", "Thursday", "Friday" >>

RECURSIVE WeeklyLines(_, _)
WeeklyLines(schedule, d) ==
    IF d > Len(WEEK_DAYS) THEN ""
    ELSE (IF HasKey(schedule, WEEK_DAYS[d])
            THEN "**" \o WEEK_DAYS[d] \o ":**\n"
                 \o PeriodLines(Lookup(schedule, WEEK_DAYS[d]).classes, 1) \o "\n"
            ELSE "")
         \o WeeklyLines(schedule, d + 1)

\* get_personalized_timetable: a text, None, or an exception
get_personalized_timetable(admin_data, profile) ==
    IF ProfileLacksDept(profile) THEN None
    ELSE IF IsRaise(TimetableKey(profile)) THEN TimetableKey(profile)
    ELSE IF ~ admin_data.is_dict THEN AttributeError
    ELSE IF ~ HasKey(admin_data.timetables, TimetableKey(profile))
      THEN "No timetable found for " \o ProfileDeptName(profile) \o " Semester "
           \o profile.semester \o " Section " \o profile.section
           \o ".\n\nPlease contact the admin to add your timetable."
    ELSE "**YOUR TIMETABLE**\n"
         \o "(" \o ProfileDeptName(profile) \o " | Sem " \o profile.semester
         \o " | Sec " \o profile.section \o ")\n"
         \o "Last Updated: "
         \o (IF admin_data.last_updated = None THEN "N/A" ELSE admin_data.last_updated)
         \o "\n\n"
         \o (IF admin_data.period_timings # << >>
               THEN "**Period Timings:**\n"
                    \o PeriodTimingLines(admin_data.period_timings, 1) \o "\n"
               ELSE "")
         \o "**Weekly Schedule:**\n\n"
         \o WeeklyLines(Lookup(admin_data.timetables, TimetableKey(profile)).schedule, 1)

\* get_todays_classes; today is datetime.now().strftime('%A')
get_todays_classes(admin_data, profile, today) ==
    IF ProfileLacksDept(profile)
      THEN "Please set your profile (dept/sem/section) to see today's classes."
    ELSE IF IsRaise(TimetableKey(profile)) THEN TimetableKey(profile)
    ELSE IF ~ admin_data.is_dict THEN AttributeError
    ELSE IF ~ HasKey(admin_data.timetables, TimetableKey(profile))
      THEN "No timetable found for your class."
    ELSE LET schedule == Lookup(admin_data.timetables, TimetableKey(profile)).schedule
         IN  IF ~ HasKey(schedule, today)
               THEN "No classes scheduled for today (" \o today \o ")."
             ELSE "**TODAY'S CLASSES (" \o today \o ")**\n"
                  \o ProfileDeptName(profile) \o " | Sem " \o profile.semester
                  \o " | Sec " \o profile.section \o "\n\n"
                  \o PeriodLines(Lookup(schedule, today).classes, 1)

\* target.get(field) == 'all' or target.get(field) == profile[field]
TargetMatch(target, profile, field) ==
    IF target[field] = "all" THEN "yes"
    ELSE IF field \notin profile.has THEN KeyError
    ELSE IF target[field] = profile[field] THEN "yes" ELSE "no"

\* The three matches of one notification: "yes", "no", or an exception
NotificationMatch(notif, profile) ==
    LET d == TargetMatch(notif.target, profile, "dept")
        m == TargetMatch(notif.target, profile, "semester")
        c == TargetMatch(notif.target, profile, "section")
    IN  IF IsRaise(d) THEN d ELSE IF IsRaise(m) THEN m ELSE IF IsRaise(c) THEN c
        ELSE IF d = "yes" /\ m = "yes" /\ c = "yes" THEN "yes" ELSE "no"

RECURSIVE NotificationLines(_, _, _)
NotificationLines(notifications, profile, k) ==
    IF k > Len(notifications) THEN ""
    ELSE (IF NotificationMatch(notifications[k], profile) = "yes"
            THEN "**" \o (IF notifications[k].priority = "high" THEN "[IMPORTANT] " ELSE "")
                 \o notifications[k].title \o "** (" \o Upper(notifications[k].type) \o ")\n"
                 \o notifications[k].message \o "\n"
                 \o "Date: " \o notifications[k].date \o "\n\n"
            ELSE "")
         \o NotificationLines(notifications, profile, k + 1)

\* get_student_notifications
get_student_notifications(admin_data, profile) ==
    IF ProfileLacksDept(profile) THEN "Please set your profile to see notifications."
    ELSE IF ~ admin_data.is_dict THEN AttributeError
    ELSE
    LET notifications == admin_data.notifications
        raising == { k \in 1..Len(notifications) :
                       IsRaise(NotificationMatch(notifications[k], profile)) }
    IN  IF notifications = << >> THEN "No notifications at the moment."
        ELSE IF raising # {}
          THEN NotificationMatch(
                   notifications[CHOOSE h \in raising : \A g \in raising : h <= g], profile)
        ELSE IF \A k \in 1..Len(notifications) :
                    NotificationMatch(notifications[k], profile) = "no"
          THEN "No notifications for you at the moment."
        ELSE "**YOUR NOTIFICATIONS:**\n\n" \o NotificationLines(notifications, profile, 1)

RECURSIVE UpcomingExamLines(_, _, _)
UpcomingExamLines(upcoming, profile, k) ==
    IF k > Len(upcoming) THEN ""
    ELSE (IF \/ ProfileLacksDept(profile)
             \/ upcoming[k].target = "all"
             \/ Contains(upcoming[k].target, profile.dept)
            THEN "- " \o upcoming[k].name \o ": " \o upcoming[k].date \o "\n"
            ELSE "")
         \o UpcomingExamLines(upcoming, profile, k + 1)

\* get_exam_schedule
get_exam_schedule(admin_data, profile) ==
    IF ~ admin_data.is_dict THEN AttributeError
    ELSE IF admin_data.exam_schedule.is_empty THEN None
    ELSE LET exam_schedule == admin_data.exam_schedule
         IN  "**EXAMINATION SCHEDULE:**\n\n"
             \o "- Internal Exams: " \o exam_schedule.internal_exams \o "\n"
             \o "- Odd Semester Exams: " \o exam_schedule.odd_semester_exams \o "\n"
             \o "- Even Semester Exams: " \o exam_schedule.even_semester_exams \o "\n\n"
             \o (IF exam_schedule.upcoming # << >>
                   THEN "**Upcoming Exams:**\n"
                        \o UpcomingExamLines(exam_schedule.upcoming, profile, 1)
                   ELSE "")

RECURSIVE FacultyDetailLines(_, _)
FacultyDetailLines(members, k) ==
    IF k > Len(members) THEN ""
    ELSE "- **" \o members[k].name \o "**\n"
         \o "  Subject: " \o members[k].subject \o "\n"
         \o "  Cabin: " \o members[k].cabin \o "\n\n"
         \o FacultyDetailLines(members, k + 1)

RECURSIVE FacultyBriefLines(_, _)
FacultyBriefLines(members, k) ==
    IF k > Len(members) THEN ""
    ELSE "- " \o members[k].name \o " (" \o members[k].subject \o ")\n"
         \o FacultyBriefLines(members, k + 1)

RECURSIVE FacultyDepartments(_, _)
FacultyDepartments(faculty_data, k) ==
    IF k > Len(faculty_data) THEN ""
    ELSE "**" \o faculty_data[k].key \o " Department:**\n"
         \o FacultyBriefLines(faculty_data[k].members, 1) \o "\n"
         \o FacultyDepartments(faculty_data, k + 1)

\* get_faculty_info
get_faculty_info(admin_data, profile) ==
    IF ~ admin_data.is_dict THEN AttributeError
    ELSE IF admin_data.faculty = << >> THEN None
    ELSE LET dept == IF profile.is_none \/ profile.has = {}
                       THEN None ELSE ProfileGet(profile, "dept")
         IN  IF Truthy(dept) /\ HasKey(admin_data.faculty, dept)
               THEN "**" \o ProfileDeptName(profile) \o " FACULTY:**\n\n"
                    \o FacultyDetailLines(Lookup(admin_data.faculty, dept).members, 1)
             ELSE "**FACULTY INFORMATION:**\n\n"
                  \o FacultyDepartments(admin_data.faculty, 1)

\* get_custom_section_response: the first section sharing a keyword with the query
get_custom_section_response(admin_data, user_keywords) ==
    IF ~ admin_data.is_dict THEN AttributeError
    ELSE LET custom_sections == admin_data.custom_sections
             hits == { k \in 1..Len(custom_sections) :
                         \E u \in 1..Len(user_keywords) :
                             InList(user_keywords[u], custom_sections[k].keywords) }
         IN  IF hits = {} THEN None
             ELSE LET section == custom_sections[CHOOSE h \in hits : \A g \in hits : h <= g]
                  IN  "**" \o Upper(section.name) \o ":**\n\n" \o section.content

(***************************************************************************)
(* src/utils/rule_engine.py: calculate_similarity                          *)
(*                                                                         *)
(* difflib.SequenceMatcher(None, a, b).ratio() is 2*M/T: T the two lengths *)
(* added, M the characters in the matching blocks, found by taking the     *)
(* longest common block (the earliest in a, then the earliest in b) and    *)
(* recursing to its left and to its right.  The popularity heuristic of    *)
(* difflib only applies to a second text of 200 characters or more.        *)
(***************************************************************************)
RECURSIVE CommonRun(_, _, _, _, _, _)
\* The length of the longest common run of a[i..ahi] and b[j..bhi] from i and j
CommonRun(a, b, i, ahi, j, bhi) ==
    IF i > ahi \/ j > bhi \/ At(a, i) # At(b, j) THEN 0
    ELSE 1 + CommonRun(a, b, i + 1, ahi, j + 1, bhi)

\* The block of get_matching_blocks() that starts at the pair best
BlockAt(a, b, ahi, bhi, best) ==
    [i |-> best[1], j |-> best[2], size |-> CommonRun(a, b, best[1], ahi, best[2], bhi)]

\* find_longest_match(alo, ahi, blo, bhi), the bounds inclusive
LongestMatch(a, b, alo, ahi, blo, bhi) ==
    LET pairs == { p \in (alo..ahi) \X (blo..bhi) : At(a, p[1]) = At(b, p[2]) }
        size(p) == CommonRun(a, b, p[1], ahi, p[2], bhi)
    IN  IF pairs = {} THEN [i |-> alo, j |-> blo, size |-> 0]
        ELSE BlockAt(a, b, ahi, bhi,
                     CHOOSE p \in pairs :
                         \A q \in pairs :
                             \/ size(p) > size(q)
                             \/ /\ size(p) = size(q)
                                /\ \/ p[1] < q[1]
                                   \/ p[1] = q[1] /\ p[2] <= q[2])

RECURSIVE MatchedChars(_, _, _, _, _, _)
RECURSIVE MatchedAround(_, _, _, _, _, _, _)
\* The sum of the sizes of get_matching_blocks() within a[alo..ahi], b[blo..bhi]
MatchedChars(a, b, alo, ahi, blo, bhi) ==
    IF alo > ahi \/ blo > bhi THEN 0
    ELSE MatchedAround(a, b, alo, ahi, blo, bhi, LongestMatch(a, b, alo, ahi, blo, bhi))

\* The longest block m, and the blocks to its left and to its right
MatchedAround(a, b, alo, ahi, blo, bhi, m) ==
    IF m.size = 0 THEN 0
    ELSE m.size
         + MatchedChars(a, b, alo, m.i - 1, blo, m.j - 1)
         + MatchedChars(a, b, m.i + m.size, ahi, m.j + m.size, bhi)

\* calculate_similarity, as the fraction num/den
calculate_similarity(text1, text2) ==
    IF Len(text1) + Len(text2) = 0 THEN [num |-> 1, den |-> 1]
    ELSE [num |-> 2 * MatchedChars(text1, text2, 1, Len(text1), 1, Len(text2)),
          den |-> Len(text1) + Len(text2)]

(***************************************************************************)
(* src/utils/rule_engine.py: find_answer                                   *)
(*                                                                         *)
(* Scores are exact fractions num/den (den > 0); a confidence is a number  *)
(* of hundredths, so 0.95 is 95.                                           *)
(***************************************************************************)
\* config.SIMILARITY_THRESHOLD, 0.6, in hundredths
SIMILARITY_THRESHOLD == 60
\* The weights of the string and keyword similarities, in tenths
STRING_WEIGHT == 4
KEYWORD_WEIGHT == 6
\* The score a pattern with all its keywords in the query gets at least, in hundredths
FULL_COVERAGE_SCORE == 85
SPECIAL_CONFIDENCE == 95
FACULTY_CONFIDENCE == 90

FracLess(x, y) == x.num * y.den < y.num * x.den
FracMax(x, y) == IF FracLess(x, y) THEN y ELSE x
Hundredths(n) == [num |-> n, den |-> 100]

\* round(score, 2) in hundredths, a tie going to the even neighbour (the
\* source rounds a binary float, where a score that is a tie in exact
\* arithmetic lands on whichever side its floating-point error puts it)
RoundHundredths(x) ==
    LET q == (x.num * 100) \div x.den
        r == (x.num * 100) % x.den
    IN  IF 2 * r < x.den THEN q
        ELSE IF 2 * r > x.den THEN q + 1
        ELSE IF q % 2 = 0 THEN q ELSE q + 1

\* (string_similarity * 0.4) + (keyword_similarity * 0.6)
CombinedScore(string_similarity, keyword_similarity) ==
    [num |-> STRING_WEIGHT * string_similarity.num * keyword_similarity.den
             + KEYWORD_WEIGHT * keyword_similarity.num * string_similarity.den,
     den |-> 10 * string_similarity.den * keyword_similarity.den]

\* keyword_matches / len(pattern_keywords), or 0 for a pattern without keywords
KeywordSimilarity(user_keywords, pattern_keywords) ==
    IF pattern_keywords # << >>
      THEN [num |-> Cardinality({ u \in 1..Len(user_keywords) :
                                    InList(user_keywords[u], pattern_keywords) }),
            den |-> Len(pattern_keywords)]
      ELSE [num |-> 0, den |-> 1]

\* pattern_keywords and all(pk in user_keywords for pk in pattern_keywords)
AllKeywordsPresent(user_keywords, pattern_keywords) ==
    /\ pattern_keywords # << >>
    /\ \A k \in 1..Len(pattern_keywords) : InList(pattern_keywords[k], user_keywords)

\* A variant of the coverage floor that raises a score to the threshold only
FlooredAtThreshold(combined_score, full_coverage) ==
    IF full_coverage THEN FracMax(combined_score, Hundredths(SIMILARITY_THRESHOLD))
    ELSE combined_score

\* combined_score = max(combined_score, 0.85) when the query covers the pattern
FlooredScore(combined_score, full_coverage) ==
    IF full_coverage THEN FracMax(combined_score, Hundredths(FULL_COVERAGE_SCORE))
    ELSE combined_score

PatternScoreOf(processed_query, user_keywords, processed_pattern, pattern_keywords) ==
    FlooredScore(CombinedScore(calculate_similarity(processed_query, processed_pattern),
                               KeywordSimilarity(user_keywords, pattern_keywords)),
                 AllKeywordsPresent(user_keywords, pattern_keywords))

\* combined_score of one pattern against the query
PatternScore(processed_query, user_keywords, pattern) ==
    PatternScoreOf(processed_query, user_keywords, preprocess_text(pattern),
                   get_keywords(pattern))

\* A variant of the update of best_match in which a pattern that only equals
\* the best score replaces it: the matching property below must tell it
\* from Better
BetterOrEqual(best, combined_score, intent) ==
    IF ~ FracLess(combined_score, best.score)
      THEN [score |-> combined_score, intent |-> intent.tag,
            responses |-> intent.responses]
      ELSE best

\* A variant of the update of best_match that merges intents by tag: a
\* pattern that equals the best score replaces it when its intent carries
\* the tag of the best one
BetterOrSameTag(best, combined_score, intent) ==
    IF \/ FracLess(best.score, combined_score)
       \/ /\ ~ FracLess(combined_score, best.score)
          /\ intent.tag = best.intent
      THEN [score |-> combined_score, intent |-> intent.tag,
            responses |-> intent.responses]
      ELSE best

\* if combined_score > best_score: the pattern's intent becomes best_match
Better(best, combined_score, intent) ==
    IF FracLess(best.score, combined_score)
      THEN [score |-> combined_score, intent |-> intent.tag,
            responses |-> intent.responses]
      ELSE best

RECURSIVE BestMatch(_, _, _, _, _, _)
\* The loops over intents and their patterns: best_match after the patterns
\* from pattern p of intent k on, starting from best
BestMatch(intents, processed_query, user_keywords, k, p, best) ==
    IF k > Len(intents) THEN best
    ELSE IF p > Len(intents[k].patterns)
      THEN BestMatch(intents, processed_query, user_keywords, k + 1, 1, best)
    ELSE BestMatch(intents, processed_query, user_keywords, k, p + 1,
                   Better(best,
                          PatternScore(processed_query, user_keywords,
                                       intents[k].patterns[p]),
                          intents[k]))

\* The priority blocks of find_answer in the order the code tests them
PRIORITY_BLOCKS ==
    << "room_location", "todays_classes", "timetable", "notifications",
       "exam_schedule", "faculty", "custom_section", "knowledge_base" >>

\* A returned dict; evaluated lists the priority blocks whose test was run,
\* entered those whose test held, so that the body of the block ran
MatchResult(found, answer, confidence, intent) ==
    [found |-> found, answer |-> answer, confidence |-> confidence,
     intent |-> intent, raised |-> None, evaluated |-> << >>, entered |-> << >>]

\* An exception leaving find_answer: no dict is returned
RaisedResult(exception) ==
    [found |-> FALSE, answer |-> None, confidence |-> 0, intent |-> None,
     raised |-> exception, evaluated |-> << >>, entered |-> << >>]

\* result, reached after the test of the block
Reached(block, result) ==
    [result EXCEPT !.evaluated = << PRIORITY_BLOCKS[block] >> \o @]

\* result, reached through the body of the block, whose test held
Entered(block, result) ==
    [Reached(block, result) EXCEPT !.entered = << PRIORITY_BLOCKS[block] >> \o @]

\* Priority 8, once best_match is known; pick is what random.choice draws
KnowledgeBaseResult(best_match, pick) ==
    IF /\ ~ FracLess(best_match.score, Hundredths(SIMILARITY_THRESHOLD))
       /\ best_match.responses # << >>
      THEN Entered(8, MatchResult(TRUE,
                          best_match.responses[(pick % Len(best_match.responses)) + 1],
                          RoundHundredths(best_match.score), best_match.intent))
      ELSE Entered(8, MatchResult(FALSE, None, RoundHundredths(best_match.score), None))

\* Priority 8: knowledge-base matching
KnowledgeBaseAnswer(knowledge_base, user_message, pick) ==
    IF ~ knowledge_base.is_dict THEN Entered(8, RaisedResult(AttributeError))
    ELSE KnowledgeBaseResult(
             BestMatch(knowledge_base.intents, preprocess_text(user_message),
                       get_keywords(user_message), 1, 1,
                       [score |-> [num |-> 0, den |-> 1], intent |-> None,
                        responses |-> << >>]),
             pick)

\* A block that returns its reply whenever its test holds (priorities 2, 4);
\* otherwise is the result of the blocks after it
ReplyAlways(block, triggered, reply, intent, otherwise) ==
    IF triggered /\ IsRaise(reply) THEN Entered(block, RaisedResult(reply))
    ELSE IF triggered
      THEN Entered(block, MatchResult(TRUE, reply, SPECIAL_CONFIDENCE, intent))
    ELSE Reached(block, otherwise)

\* A block like ReplyIfAny that gives up the search when its test holds and
\* its reply is not truthy
ReplyIfAnyOrStop(block, triggered, reply, confidence, intent, otherwise) ==
    IF triggered /\ IsRaise(reply) THEN Entered(block, RaisedResult(reply))
    ELSE IF triggered /\ Truthy(reply)
      THEN Entered(block, MatchResult(TRUE, reply, confidence, intent))
    ELSE IF triggered THEN Entered(block, MatchResult(FALSE, None, 0, None))
    ELSE Reached(block, otherwise)

\* A block that returns its reply when its test holds and the reply is
\* truthy (priorities 1, 5, 6, 7)
ReplyIfAny(block, triggered, reply, confidence, intent, otherwise) ==
    IF triggered /\ IsRaise(reply) THEN Entered(block, RaisedResult(reply))
    ELSE IF triggered /\ Truthy(reply)
      THEN Entered(block, MatchResult(TRUE, reply, confidence, intent))
    ELSE IF triggered THEN Entered(block, otherwise)
    ELSE Reached(block, otherwise)

\* Priority 3: the full timetable, or the request to set the profile
TimetableBlock(triggered, profile, reply, otherwise) ==
    IF triggered /\ ProfileLacksDept(profile)
      THEN Entered(3, MatchResult(TRUE,
             "Please set your profile (Department, Semester, Section) to see your personalized timetable.",
             SPECIAL_CONFIDENCE, "profile_required"))
    ELSE ReplyIfAny(3, triggered, reply, SPECIAL_CONFIDENCE, "timetable", otherwise)

\* The tests of priorities 1 to 6
RoomTrigger(user_keywords, query_lower) ==
    \/ AnyKeyword({"room", "where", "location", "floor", "wing", "lab", "find"},
                  user_keywords)
    \/ SearchThreeDigits(query_lower) # None

TodayTrigger(user_keywords, query_lower) ==
    /\ ContainsAny(query_lower, <<"today", "today's", "now", "current class">>)
    /\ AnyKeyword({"class", "classes", "timetable", "schedule"}, user_keywords)

TimetableTrigger(user_keywords) ==
    AnyKeyword({"timetable", "schedule", "classes", "weekly"}, user_keywords)

NotificationTrigger(user_keywords) ==
    AnyKeyword({"notification", "notifications", "notice", "update", "updates",
                "announcement"}, user_keywords)

ExamTrigger(user_keywords) ==
    AnyKeyword({"exam", "exams", "examination", "test", "midterm", "final"},
               user_keywords)

FacultyTrigger(user_keywords) ==
    AnyKeyword({"faculty", "teacher", "professor", "prof", "staff", "cabin"},
               user_keywords)

\* A variant of the body of find_answer that tests the two timetable blocks
\* before the room block: the priority property below must tell it from AnswerFrom
AnswerFromTimetableFirst(user_message, user_keywords, query_lower, admin_data, profile, kb_file, today, pick) ==
    ReplyAlways(2, TodayTrigger(user_keywords, query_lower),
        get_todays_classes(admin_data, profile, today), "todays_classes",
    TimetableBlock(TimetableTrigger(user_keywords), profile,
        get_personalized_timetable(admin_data, profile),
    ReplyIfAny(1, RoomTrigger(user_keywords, query_lower),
        get_room_location(admin_data, user_message),
        SPECIAL_CONFIDENCE, "room_location",
    ReplyAlways(4, NotificationTrigger(user_keywords),
        get_student_notifications(admin_data, profile), "notifications",
    ReplyIfAny(5, ExamTrigger(user_keywords),
        get_exam_schedule(admin_data, profile), SPECIAL_CONFIDENCE, "exam_schedule",
    ReplyIfAny(6, FacultyTrigger(user_keywords),
        get_faculty_info(admin_data, profile), FACULTY_CONFIDENCE, "faculty",
    ReplyIfAny(7, TRUE,
        get_custom_section_response(admin_data, user_keywords),
        FACULTY_CONFIDENCE, "custom_section",
    KnowledgeBaseAnswer(load_knowledge_base(kb_file), user_message, pick))))))))

\* The body of find_answer once the query is preprocessed and admin_data loaded
AnswerFrom(user_message, user_keywords, query_lower, admin_data, profile, kb_file, today, pick) ==
    ReplyIfAny(1, RoomTrigger(user_keywords, query_lower),
        get_room_location(admin_data, user_message),
        SPECIAL_CONFIDENCE, "room_location",
    ReplyAlways(2, TodayTrigger(user_keywords, query_lower),
        get_todays_classes(admin_data, profile, today), "todays_classes",
    TimetableBlock(TimetableTrigger(user_keywords), profile,
        get_personalized_timetable(admin_data, profile),
    ReplyAlways(4, NotificationTrigger(user_keywords),
        get_student_notifications(admin_data, profile), "notifications",
    ReplyIfAny(5, ExamTrigger(user_keywords),
        get_exam_schedule(admin_data, profile), SPECIAL_CONFIDENCE, "exam_schedule",
    ReplyIfAny(6, FacultyTrigger(user_keywords),
        get_faculty_info(admin_data, profile), FACULTY_CONFIDENCE, "faculty",
    ReplyIfAny(7, TRUE,
        get_custom_section_response(admin_data, user_keywords),
        FACULTY_CONFIDENCE, "custom_section",
    KnowledgeBaseAnswer(load_knowledge_base(kb_file), user_message, pick))))))))

\* find_answer; today and pick are what the clock and random.choice give
find_answer(user_message, profile, admin_file, kb_file, today, pick) ==
    AnswerFrom(user_message, get_keywords(user_message), Lower(user_message),
               load_admin_data(admin_file), profile, kb_file, today, pick)

(***************************************************************************)
(* src/utils/ai_fallback.py                                                *)
(*                                                                         *)
(* What lies outside the program is the environment env of one call: the   *)
(* configured provider and its API key, whether the provider's client      *)
(* library could be imported, and what the provider does with the request  *)
(* (outcome: an exception of the client or of the HTTP layer, or a         *)
(* completion text).  requests counts the requests sent to the provider.   *)
(***************************************************************************)
OUT_OF_SCOPE_INDICATORS ==
    << "political party", "vote for", "election", "religious belief",
       "god", "prayer", "worship",
       "relationship advice", "dating tips", "love life",
       "stock market", "cryptocurrency", "bitcoin", "invest in",
       "medical diagnosis", "prescription", "you should take",
       "legal advice", "lawyer", "sue them" >>

\* A variant of the scope filter that compares the response as it is cased
is_response_out_of_scope_cased(response) ==
    ContainsAny(response, OUT_OF_SCOPE_INDICATORS)

\* is_response_out_of_scope
is_response_out_of_scope(response) ==
    ContainsAny(Lower(response), OUT_OF_SCOPE_INDICATORS)

AIResult(success, answer, requests) ==
    [success |-> success, answer |-> answer, requests |-> requests]

\* The placeholder config.py ships for the key of a provider
PlaceholderKey(provider) == "your-" \o provider \o "-api-key-here"

\* not config.X_API_KEY or config.X_API_KEY == "your-x-api-key-here"
KeyMissing(env, provider) ==
    env.api_key = "" \/ env.api_key = PlaceholderKey(provider)

\* A variant of the try block that passes the text of the exception on to
\* the caller: the failure-mapping property below must tell it from
\* CompletionResult
CompletionResultLeaky(outcome, empty_check) ==
    IF outcome.kind = "raise" THEN AIResult(FALSE, "Error: " \o outcome.error, 1)
    ELSE LET ai_answer == Strip(outcome.text)
         IN  IF empty_check /\ ai_answer = ""
               THEN AIResult(FALSE, FALLBACK_MESSAGE, 1)
             ELSE IF is_response_out_of_scope(ai_answer)
               THEN AIResult(TRUE, OFF_TOPIC_MESSAGE, 1)
             ELSE AIResult(TRUE, ai_answer, 1)

\* The try block the provider functions share: the request, the completion
\* stripped, the empty check where the function has one, the scope filter
CompletionResult(outcome, empty_check) ==
    IF outcome.kind = "raise" THEN AIResult(FALSE, FALLBACK_MESSAGE, 1)
    ELSE LET ai_answer == Strip(outcome.text)
         IN  IF empty_check /\ ai_answer = ""
               THEN AIResult(FALSE, FALLBACK_MESSAGE, 1)
             ELSE IF is_response_out_of_scope(ai_answer)
               THEN AIResult(TRUE, OFF_TOPIC_MESSAGE, 1)
             ELSE AIResult(TRUE, ai_answer, 1)

get_openai_response(user_message, env) ==
    IF ~ env.library_available THEN AIResult(FALSE, FALLBACK_MESSAGE, 0)
    ELSE IF KeyMissing(env, "openai") THEN AIResult(FALSE, FALLBACK_MESSAGE, 0)
    ELSE CompletionResult(env.outcome, TRUE)

\* get_gemini_rest_response has no check for an empty completion
get_gemini_rest_response(user_message, env) ==
    IF KeyMissing(env, "gemini") THEN AIResult(FALSE, FALLBACK_MESSAGE, 0)
    ELSE CompletionResult(env.outcome, FALSE)

get_gemini_response(user_message, env) ==
    IF ~ env.library_available THEN get_gemini_rest_response(user_message, env)
    ELSE IF KeyMissing(env, "gemini") THEN AIResult(FALSE, FALLBACK_MESSAGE, 0)
    ELSE CompletionResult(env.outcome, TRUE)

get_groq_response(user_message, env) ==
    IF KeyMissing(env, "groq") THEN AIResult(FALSE, FALLBACK_MESSAGE, 0)
    ELSE CompletionResult(env.outcome, TRUE)

\* get_ai_response
get_ai_response(user_message, env) ==
    LET provider == Lower(env.LLM_PROVIDER)
    IN  IF provider = "openai" THEN get_openai_response(user_message, env)
        ELSE IF provider = "gemini" THEN get_gemini_response(user_message, env)
        ELSE IF provider = "groq" THEN get_groq_response(user_message, env)
        ELSE AIResult(FALSE, FALLBACK_MESSAGE, 0)

(***************************************************************************)
(* src/utils/admin_auth.py                                                 *)
(*                                                                         *)
(* The module keeps two dicts for the whole process, _otp_storage and      *)
(* _login_attempts, both keyed by username; here they are functions on the *)
(* usernames of the model, an absent key being a record with present =     *)
(* FALSE.  A Flask session is a record of the three keys the module reads; *)
(* a key that was popped or never set holds None (admin_authenticated:     *)
(* FALSE, which is what session.get("admin_authenticated", False) gives).  *)
(* Each function takes the dicts, the session and the clock reading it     *)
(* uses, and returns its result together with the dicts and the session as *)
(* it leaves them.  Times are in seconds.                                  *)
(***************************************************************************)
OTP_VALIDITY_SECONDS == 300
MAX_LOGIN_ATTEMPTS == 5
LOCKOUT_DURATION == 900

\* ADMIN_ACCOUNTS: the pre-created accounts; the password stands for its
\* hash, check_password_hash(generate_password_hash(p), q) being p = q
ADMIN_ACCOUNTS ==
    [admin |-> [password |-> "admin123", full_name |-> "System Administrator",
                role |-> "super_admin"],
     hod_cse |-> [password |-> "hodcse@2024", full_name |-> "HOD - Computer Science",
                  role |-> "department_admin"],
     staff |-> [password |-> "staff@2024", full_name |-> "Staff User",
                role |-> "editor"]]

\* verify_password(account["password_hash"], password)
verify_password(account, provided_password) == account.password = provided_password

Absent == [present |-> FALSE]

NewSession ==
    [admin_authenticated |-> FALSE, admin_username |-> None, admin_role |-> None,
     admin_name |-> None, pending_admin_username |-> None]

\* create_otp_for_user; otp is what generate_otp draws
create_otp_for_user(otp_data, username, otp, time) ==
    [otp_data EXCEPT ![username] = [present |-> TRUE, otp |-> otp, timestamp |-> time]]

\* verify_otp without the check of the age of the OTP
verify_otp_any_age(otp_data, username, provided_otp, time) ==
    IF ~ otp_data[username].present
      THEN [success |-> FALSE,
            message |-> "No OTP generated for this user. Please login again.",
            otp_storage |-> otp_data]
    ELSE IF otp_data[username].otp # provided_otp
      THEN [success |-> FALSE, message |-> "Invalid OTP. Please try again.",
            otp_storage |-> otp_data]
    ELSE [success |-> TRUE, message |-> "OTP verified successfully.",
          otp_storage |-> [otp_data EXCEPT ![username] = Absent]]

\* verify_otp with a single guess: a wrong OTP removes the stored one
verify_otp_one_guess(otp_data, username, provided_otp, time) ==
    IF ~ otp_data[username].present
      THEN [success |-> FALSE,
            message |-> "No OTP generated for this user. Please login again.",
            otp_storage |-> otp_data]
    ELSE IF time - otp_data[username].timestamp > OTP_VALIDITY_SECONDS
      THEN [success |-> FALSE, message |-> "OTP has expired. Please login again.",
            otp_storage |-> [otp_data EXCEPT ![username] = Absent]]
    ELSE IF otp_data[username].otp # provided_otp
      THEN [success |-> FALSE, message |-> "Invalid OTP. Please try again.",
            otp_storage |-> [otp_data EXCEPT ![username] = Absent]]
    ELSE [success |-> TRUE, message |-> "OTP verified successfully.",
          otp_storage |-> [otp_data EXCEPT ![username] = Absent]]

\* verify_otp: (success, message), and _otp_storage afterwards
verify_otp(otp_data, username, provided_otp, time) ==
    IF ~ otp_data[username].present
      THEN [success |-> FALSE,
            message |-> "No OTP generated for this user. Please login again.",
            otp_storage |-> otp_data]
    ELSE IF time - otp_data[username].timestamp > OTP_VALIDITY_SECONDS
      THEN [success |-> FALSE, message |-> "OTP has expired. Please login again.",
            otp_storage |-> [otp_data EXCEPT ![username] = Absent]]
    ELSE IF otp_data[username].otp # provided_otp
      THEN [success |-> FALSE, message |-> "Invalid OTP. Please try again.",
            otp_storage |-> otp_data]
    ELSE [success |-> TRUE, message |-> "OTP verified successfully.",
          otp_storage |-> [otp_data EXCEPT ![username] = Absent]]

\* The entry of _login_attempts with no lockout_until key
Attempts(n) == [present |-> TRUE, attempts |-> n, locked |-> FALSE]

\* check_lockout that finds nobody locked
check_lockout_open(attempt_data, username, time) ==
    [is_locked |-> FALSE, remaining |-> 0, login_attempts |-> attempt_data]

\* check_lockout: (is_locked, remaining), and _login_attempts afterwards
check_lockout(attempt_data, username, time) ==
    IF ~ attempt_data[username].present
      THEN [is_locked |-> FALSE, remaining |-> 0, login_attempts |-> attempt_data]
    ELSE IF attempt_data[username].locked
      THEN IF attempt_data[username].lockout_until - time > 0
             THEN [is_locked |-> TRUE,
                   remaining |-> attempt_data[username].lockout_until - time,
                   login_attempts |-> attempt_data]
             ELSE [is_locked |-> FALSE, remaining |-> 0,
                   login_attempts |-> [attempt_data EXCEPT ![username] = Attempts(0)]]
    ELSE [is_locked |-> FALSE, remaining |-> 0, login_attempts |-> attempt_data]

\* The entry after one more failure: the count, and the lockout it keeps or gets
FailedEntry(entry, attempts, time) ==
    IF attempts >= MAX_LOGIN_ATTEMPTS
      THEN [present |-> TRUE, attempts |-> attempts, locked |-> TRUE,
            lockout_until |-> time + LOCKOUT_DURATION]
      ELSE [entry EXCEPT !.attempts = attempts]

\* record_failed_attempt once the entry is there and counted
RecordedAttempt(attempt_data, username, entry, attempts, time) ==
    [attempts_left |-> IF attempts >= MAX_LOGIN_ATTEMPTS THEN 0
                       ELSE MAX_LOGIN_ATTEMPTS - attempts,
     is_locked |-> attempts >= MAX_LOGIN_ATTEMPTS,
     login_attempts |->
         [attempt_data EXCEPT ![username] = FailedEntry(entry, attempts, time)]]

\* record_failed_attempt: (attempts_remaining, is_now_locked), and
\* _login_attempts afterwards
record_failed_attempt(attempt_data, username, time) ==
    IF attempt_data[username].present
      THEN RecordedAttempt(attempt_data, username, attempt_data[username],
                           attempt_data[username].attempts + 1, time)
      ELSE RecordedAttempt(attempt_data, username, Attempts(0), 1, time)

\* reset_login_attempts
reset_login_attempts(attempt_data, username) ==
    [attempt_data EXCEPT ![username] = Absent]

\* What authenticate_admin returns, with the dicts and the session afterwards
AuthResult(success, message, otp, attempt_data, otp_data, session) ==
    [success |-> success, message |-> message, otp |-> otp,
     login_attempts |-> attempt_data, otp_storage |-> otp_data, session |-> session]

\* The return of authenticate_admin for a wrong password, after the failure
\* was recorded
WrongPassword(recorded, otp_data, session) ==
    IF recorded.is_locked
      THEN AuthResult(FALSE, "Too many failed attempts. Account locked for 15 minutes.",
                      None, recorded.login_attempts, otp_data, session)
      ELSE AuthResult(FALSE,
                      "Invalid username or password. " \o IntToStr(recorded.attempts_left)
                          \o " attempts remaining.",
                      None, recorded.login_attempts, otp_data, session)

\* authenticate_admin once check_lockout has returned lockout
PasswordStep(lockout, otp_data, session, username, password, otp, time) ==
    IF lockout.is_locked
      THEN AuthResult(FALSE,
                      "Account locked. Try again in "
                          \o IntToStr(lockout.remaining \div 60) \o "m "
                          \o IntToStr(lockout.remaining % 60) \o "s.",
                      None, lockout.login_attempts, otp_data, session)
    ELSE IF username \notin DOMAIN ADMIN_ACCOUNTS
      THEN AuthResult(FALSE, "Invalid username or password.", None,
                      record_failed_attempt(lockout.login_attempts, username,
                                            time).login_attempts,
                      otp_data, session)
    ELSE IF ~ verify_password(ADMIN_ACCOUNTS[username], password)
      THEN WrongPassword(record_failed_attempt(lockout.login_attempts, username, time),
                         otp_data, session)
    ELSE AuthResult(TRUE, "Password verified. Please enter OTP.", otp,
                    reset_login_attempts(lockout.login_attempts, username),
                    create_otp_for_user(otp_data, username, otp, time),
                    [session EXCEPT !.pending_admin_username = username])

\* authenticate_admin (step 1: the password); otp is what generate_otp draws
\* when the password is right
authenticate_admin(attempt_data, otp_data, session, username, password, otp, time) ==
    PasswordStep(check_lockout(attempt_data, username, time), otp_data, session,
                 username, password, otp, time)

\* complete_authentication once verify_otp has returned verified
OtpStep(verified, session, username) ==
    IF verified.success
      THEN [success |-> TRUE,
            message |-> "Welcome, " \o ADMIN_ACCOUNTS[username].full_name \o "!",
            otp_storage |-> verified.otp_storage,
            session |-> [admin_authenticated |-> TRUE, admin_username |-> username,
                         admin_role |-> ADMIN_ACCOUNTS[username].role,
                         admin_name |-> ADMIN_ACCOUNTS[username].full_name,
                         pending_admin_username |-> None]]
      ELSE [success |-> FALSE, message |-> verified.message,
            otp_storage |-> verified.otp_storage, session |-> session]

\* complete_authentication (step 2: the OTP): (success, message), and
\* _otp_storage and the session afterwards
complete_authentication(otp_data, session, username, otp, time) ==
    OtpStep(verify_otp(otp_data, username, otp, time), session, username)

\* logout_admin: the keys of the admin are popped from the session
logout_admin(session) == NewSession

\* is_admin_authenticated
is_admin_authenticated(session) == session.admin_authenticated

(***************************************************************************)
(* The inputs of the model                                                 *)
(*                                                                         *)
(* A message is one to MaxWords phrases of a vocabulary separated by       *)
(* single spaces, or one of a few messages written out in full.            *)
(***************************************************************************)
MaxWords == 2

Range(f) == { f[x] : x \in DOMAIN f }

\* The texts made of 1 to n phrases of words
Phrases(words, n) ==
    { Join(" ", ws) : ws \in UNION { [1..k -> Range(words)] : k \in 1..n } }

RECURSIVE Rep(_, _)
\* s * n
Rep(s, n) ==
    IF n = 0 THEN ""
    ELSE IF n = 1 THEN s
    ELSE Rep(s, n \div 2) \o Rep(s, n - n \div 2)

\* n characters of unremarkable text
LongText(n) == SubSeq(Rep("abcdefghij", (n \div 10) + 1), 1, n)

GuardWords ==
    << "hack", "hackathon", "party", "salary", "9876543210", "fees",
       "a", "HELP ME NOW", "??????", "me@bca.in" >>

GuardMessages ==
    Phrases(GuardWords, MaxWords)
    \cup { "", " ", "\t\n", " a ", "HACK THE PORTAL", "How do I hack the portal?",
           "hack_day", "unhack it", "Kill-switch", "hack2 go",
           "aaaaab", "aaaaaab", "HELLO BCA!", "HELLO BCAS!", "12345678901",
           "a.b,c!d?e.f,g!h?i.j,", "a.b,c!d?e.f,g!h?i.j,k.", "hi\n\n\n\n\n\nthere",
           LongText(MAX_MESSAGE_LENGTH), LongText(MAX_MESSAGE_LENGTH + 1),
           LongText(MAX_MESSAGE_LENGTH) \o " ",
           "hack " \o LongText(MAX_MESSAGE_LENGTH) }

RuleWords ==
    << "where is room", "808", "999", "lab", "schedule", "classes today" >>

RuleMessages ==
    Phrases(RuleWords, MaxWords)
    \cup { "where is my classroom schedule room 101", "hello",
           "where is the canteen", "Where can I find the office?",
           "exam dates", "faculty cabin", "lab exam faculty" }

ChatWords == << "hack", "party", "room 808", "schedule", "hello", "thanks" >>

ChatMessages == Phrases(ChatWords, MaxWords) \cup { "", "  ", " hello " }

\* A profile dict holding the keys of has
Profile(has) ==
    [is_none |-> FALSE, has |-> has, dept |-> "BCA", deptName |-> "Computer Applications",
     semester |-> "3", section |-> "C"]

\* No profile, the empty profile, and every subset of dept, semester, section
Profiles ==
    { NoProfile } \cup { Profile(has) : has \in SUBSET {"dept", "semester", "section"} }

CampusAdminData ==
    [is_dict |-> TRUE,
     room_directory |->
        << [key |-> "808", floor |-> "8th Floor", wing |-> "A Wing",
            type |-> "Classroom", capacity |-> "60"],
           [key |-> "Lab 1", floor |-> "1st Floor", wing |-> "B Wing",
            type |-> "Computer Lab", capacity |-> "40"] >>,
     timetables |->
        << [key |-> "BCA_3_C",
            schedule |-> << [key |-> "Monday", classes |-> <<"Maths", "C Lab">>],
                            [key |-> "Tuesday", classes |-> <<"Physics">>] >>],
           [key |-> "BCA__C", schedule |-> << [key |-> "Monday", classes |-> <<"Yoga">>] >>],
           [key |-> "BCA_3_", schedule |-> << [key |-> "Monday", classes |-> <<"Art">>] >>] >>,
     last_updated |-> "2024-01-15",
     period_timings |-> << [period |-> "1", start |-> "9:00", end |-> "9:50"] >>,
     notifications |->
        << [title |-> "Fee deadline", message |-> "Pay the fees by Friday.",
            date |-> "2024-01-10", priority |-> "high", type |-> "info",
            target |-> [dept |-> "all", semester |-> "all", section |-> "all"]] >>,
     exam_schedule |->
        [is_empty |-> FALSE, internal_exams |-> "October",
         odd_semester_exams |-> "November", even_semester_exams |-> "May",
         upcoming |-> << [name |-> "Midterm", date |-> "2024-02-01", target |-> "all"] >>],
     faculty |->
        << [key |-> "BCA",
            members |-> << [name |-> "Dr. Rao", subject |-> "Maths", cabin |-> "C-12"] >>] >>,
     custom_sections |->
        << [name |-> "Hostel", keywords |-> <<"hostel", "mess">>,
            content |-> "The hostel office is open 9 to 5."] >>]

\* A directory in which one key is the beginning of another
AnnexAdminData ==
    [EmptyAdminData EXCEPT
        !.room_directory =
            << [key |-> "80", floor |-> "Ground Floor", wing |-> "C Wing",
                type |-> "Store", capacity |-> "10"],
               [key |-> "808", floor |-> "8th Floor", wing |-> "A Wing",
                type |-> "Classroom", capacity |-> "60"],
               [key |-> "99", floor |-> "9th Floor", wing |-> "B Wing",
                type |-> "Seminar Hall", capacity |-> "120"] >>]

\* admin_data.json: missing, or holding a JSON object, or another JSON value
AdminFiles ==
    { [state |-> "missing"],
      [state |-> "ok", data |-> CampusAdminData],
      [state |-> "ok", data |-> AnnexAdminData],
      [state |-> "ok", data |-> [is_dict |-> FALSE]] }

CampusKnowledgeBase ==
    [is_dict |-> TRUE,
     intents |->
        << [tag |-> "greeting", patterns |-> <<"hello", "hi there">>,
            responses |-> <<"Hello! How can I help you?", "Hi there!">>],
           [tag |-> "fees", patterns |-> <<"what are the fees">>,
            responses |-> <<"The fee structure is on the notice board.">>] >>]

KnowledgeBaseFiles ==
    { [state |-> "missing"], [state |-> "ok", data |-> CampusKnowledgeBase] }

\* A knowledge base being edited: an intent without responses comes first
DraftKnowledgeBase ==
    [is_dict |-> TRUE,
     intents |->
        << [tag |-> "hostel", patterns |-> <<"hostel">>, responses |-> << >>],
           [tag |-> "greeting", patterns |-> <<"hello", "hostel">>,
            responses |-> <<"Hello!">>] >>]

\* A knowledge base whose greetings are split over two intents of one tag
SplitKnowledgeBase ==
    [is_dict |-> TRUE,
     intents |->
        << [tag |-> "greeting", patterns |-> <<"hello">>,
            responses |-> <<"Hello!">>],
           [tag |-> "greeting", patterns |-> <<"hi there", "hello", "how are you">>,
            responses |-> <<"Good to see you.">>] >>]

\* knowledge_base.json: missing, not parseable, holding an object, or holding
\* another JSON value
KnowledgeBaseStores ==
    KnowledgeBaseFiles
    \cup { [state |-> "corrupt"],
           [state |-> "ok", data |-> DraftKnowledgeBase],
           [state |-> "ok", data |-> SplitKnowledgeBase],
           [state |-> "ok", data |-> [is_dict |-> FALSE]] }

\* admin_data.json without usable content: missing, not parseable, or holding
\* a JSON value that is no object (save_admin_data writes any request body)
AdminStores ==
    { [state |-> "missing"], [state |-> "corrupt"],
      [state |-> "ok", data |-> [is_dict |-> FALSE]] }

KnowledgeWords == << "hello", "hi there", "fees", "hostel", "thanks" >>

KnowledgeMessages == Phrases(KnowledgeWords, MaxWords)

\* datetime.now().strftime('%A'), and the draw of random.choice
Days == { "Monday", "Sunday" }
Picks == { 0, 1 }

Raise(error) == [kind |-> "raise", error |-> error]
Completion(text) == [kind |-> "text", text |-> text]
NoRequest == [kind |-> "none"]

\* What a provider call may raise: a rejected key, a quota exceeded, no
\* connection, no reply in time, a reply without the expected fields
ExceptionKinds ==
    { "AuthenticationError", "RateLimitError", "ConnectionError", "Timeout", "KeyError" }

Outcomes ==
    { Raise(kind) : kind \in ExceptionKinds }
    \cup { Completion("  "),
           Completion(" The library is open from 9 to 5. "),
           Completion("You should vote for the best party in the Election."),
           Completion("Ask GOD for good marks.") }

\* The environments of a call of get_ai_response: the key is the one configured
\* for the provider, only openai and gemini have a client library, and where
\* no request is sent the provider has no outcome
AIEnvironments ==
    { env \in [LLM_PROVIDER : {"openai", "gemini", "Groq", "llama"},
               library_available : BOOLEAN,
               api_key : {"", PlaceholderKey("openai"), PlaceholderKey("gemini"),
                          PlaceholderKey("groq"), "key-123"},
               outcome : Outcomes \cup {NoRequest}] :
        /\ env.api_key \in {"", PlaceholderKey(Lower(env.LLM_PROVIDER)), "key-123"}
        /\ Lower(env.LLM_PROVIDER) \notin {"openai", "gemini"} => env.library_available
        /\ (env.outcome = NoRequest)
            <=> (get_ai_response("", [env EXCEPT !.outcome = Raise("Timeout")]).requests = 0) }

\* The browsers with a session cookie each, the usernames and passwords that
\* authenticate_admin is called with ("ghost" has no account; the login form
\* is posted with the names that have one), the OTPs generate_otp draws and
\* the verification form receives, and the bodies posted to
\* /secure-admin/data: an object, the JSON value null, and text that is no JSON
Browsers == { "s1", "s2" }
LoginNames == { "admin", "ghost" }
AccountNames == LoginNames \cap DOMAIN ADMIN_ACCOUNTS
Passwords == { "admin123", "letmein" }
OtpDraws == { "111111", "222222" }
SaveBodies ==
    { [tag |-> "object", valid |-> TRUE, data |-> AnnexAdminData],
      [tag |-> "null", valid |-> TRUE, data |-> [is_dict |-> FALSE]],
      [tag |-> "not json", valid |-> FALSE] }

\* The clock is read at multiples of ClockStep, up to MaxTicks of them
MaxTicks == 4
ClockStep == OTP_VALIDITY_SECONDS

(***************************************************************************)
(* The state                                                               *)
(*                                                                         *)
(* admin_file and kb_file are data/admin_data.json and                     *)
(* data/knowledge_base.json.  The other variables belong to the one        *)
(* request or call in progress: pc is its position, message and            *)
(* student_profile what the caller sent, calls the functions invoked so    *)
(* far, in order.                                                          *)
(*                                                                         *)
(* now is time.time(), sessions the Flask session of each browser,         *)
(* otp_storage and login_attempts the dicts of admin_auth.py, and request  *)
(* the admin request or call served by the last step, with its reply.      *)
(* otp_issued and failed_logins are history: for each username the OTP     *)
(* drawn at its last verified password with the time of the draw, and the  *)
(* number of authenticate_admin calls that failed in a row with the time   *)
(* of the last of them.                                                    *)
(***************************************************************************)
VARIABLES pc, admin_file, kb_file, message, student_profile, user_message,
          guardrail_result, rule_result, ai_env, ai_result, response, source, calls,
          now, sessions, otp_storage, login_attempts, request, otp_issued,
          failed_logins, threads

chat_vars == << pc, kb_file, message, student_profile, user_message,
                guardrail_result, rule_result, ai_env, ai_result, response, source,
                calls >>

admin_vars == << now, sessions, otp_storage, login_attempts, request, otp_issued,
                 failed_logins, threads >>

vars == << chat_vars, admin_file, admin_vars >>

\* The threads of the server that serve requests at the same time, and a
\* thread that has no request yet
Threads == { "t1", "t2" }
Waiting == [at |-> "idle"]

\* The value of a result variable before its function has returned
NotCalled == [called |-> FALSE]

\* No admin request served, and no failed login on record
NoAdminRequest == [route |-> None]
NoFailures == [count |-> 0, last |-> 0]

\* The state before any request or call, with the two files given
\* No request served yet, with the cookies the browsers hold
IdleWith(position, admin, kb, cookies) ==
    /\ pc = position
    /\ admin_file = admin
    /\ kb_file = kb
    /\ message = None
    /\ student_profile = NoProfile
    /\ user_message = None
    /\ guardrail_result = NotCalled
    /\ rule_result = NotCalled
    /\ ai_env = NotCalled
    /\ ai_result = NotCalled
    /\ response = None
    /\ source = None
    /\ calls = << >>
    /\ now = 0
    /\ sessions = cookies
    /\ otp_storage = [username \in LoginNames |-> Absent]
    /\ login_attempts = [username \in LoginNames |-> Absent]
    /\ request = NoAdminRequest
    /\ otp_issued = [username \in LoginNames |-> Absent]
    /\ failed_logins = [username \in LoginNames |-> NoFailures]
    /\ threads = [thread \in Threads |-> Waiting]

\* No request served yet and no browser holds a session
Idle(position, admin, kb) ==
    IdleWith(position, admin, kb, [browser \in Browsers |-> NewSession])

(***************************************************************************)
(* src/app.py: chat                                                        *)
(***************************************************************************)
Init == \E admin \in AdminFiles, kb \in KnowledgeBaseFiles : Idle("idle", admin, kb)

\* jsonify({"response": text, "source": tag})
Respond(text, tag) ==
    /\ response' = text
    /\ source' = tag
    /\ pc' = "done"

\* The request is read; an empty trimmed message is answered at once
ChatReceive ==
    /\ pc = "idle"
    /\ \E m \in ChatMessages, profile \in Profiles :
          /\ message' = m
          /\ student_profile' = profile
          /\ user_message' = Strip(m)
          /\ IF Strip(m) = ""
               THEN Respond("Please enter a message.", "system")
               ELSE pc' = "guardrails" /\ UNCHANGED << response, source >>
    /\ UNCHANGED admin_vars
    /\ UNCHANGED << admin_file, kb_file, guardrail_result, rule_result, ai_env,
                    ai_result, calls >>

\* A variant of layer 1 that lets an off-topic message through to the rule
\* engine: the short-circuit property below must tell it from ChatGuardrails
ChatGuardrailsLenient ==
    /\ pc = "guardrails"
    /\ guardrail_result' = check_guardrails(user_message)
    /\ calls' = Append(calls, "check_guardrails")
    /\ IF /\ ~ guardrail_result'.is_safe
          /\ guardrail_result'.failed_check # "off_topic"
         THEN Respond(guardrail_result'.message, "guardrail")
         ELSE pc' = "rules" /\ UNCHANGED << response, source >>
    /\ UNCHANGED admin_vars
    /\ UNCHANGED << admin_file, kb_file, message, student_profile, user_message,
                    rule_result, ai_env, ai_result >>

\* Layer 1: check_guardrails
ChatGuardrails ==
    /\ pc = "guardrails"
    /\ guardrail_result' = check_guardrails(user_message)
    /\ calls' = Append(calls, "check_guardrails")
    /\ IF ~ guardrail_result'.is_safe
         THEN Respond(guardrail_result'.message, "guardrail")
         ELSE pc' = "rules" /\ UNCHANGED << response, source >>
    /\ UNCHANGED admin_vars
    /\ UNCHANGED << admin_file, kb_file, message, student_profile, user_message,
                    rule_result, ai_env, ai_result >>

\* Layer 2: find_answer; an exception it raises leaves chat
ChatRuleEngine ==
    /\ pc = "rules"
    /\ \E today \in Days, pick \in Picks :
          rule_result' = find_answer(user_message, student_profile, admin_file,
                                     kb_file, today, pick)
    /\ calls' = Append(calls, "find_answer")
    /\ IF rule_result'.raised # None
         THEN pc' = "error" /\ UNCHANGED << response, source >>
       ELSE IF rule_result'.found
         THEN Respond(rule_result'.answer, "knowledge_base")
       ELSE pc' = "ai" /\ UNCHANGED << response, source >>
    /\ UNCHANGED admin_vars
    /\ UNCHANGED << admin_file, kb_file, message, student_profile, user_message,
                    guardrail_result, ai_env, ai_result >>

\* A variant of layer 3 that asks the provider a second time when the first
\* attempt fails: the single-attempt property below must tell it from
\* ChatAIFallback
ChatAIFallbackRetry ==
    /\ pc = "ai"
    /\ \E env \in AIEnvironments, again \in AIEnvironments :
          /\ ai_env' = env
          /\ IF get_ai_response(user_message, env).success
               THEN /\ ai_result' = get_ai_response(user_message, env)
                    /\ calls' = Append(calls, "get_ai_response")
               ELSE /\ ai_result' = get_ai_response(user_message, again)
                    /\ calls' = calls \o << "get_ai_response", "get_ai_response" >>
    /\ Respond(ai_result'.answer, IF ai_result'.success THEN "ai" ELSE "fallback")
    /\ UNCHANGED admin_vars
    /\ UNCHANGED << admin_file, kb_file, message, student_profile, user_message,
                    guardrail_result, rule_result >>

\* Layer 3: get_ai_response
ChatAIFallback ==
    /\ pc = "ai"
    /\ \E env \in AIEnvironments :
          /\ ai_env' = env
          /\ ai_result' = get_ai_response(user_message, env)
    /\ calls' = Append(calls, "get_ai_response")
    /\ Respond(ai_result'.answer, IF ai_result'.success THEN "ai" ELSE "fallback")
    /\ UNCHANGED admin_vars
    /\ UNCHANGED << admin_file, kb_file, message, student_profile, user_message,
                    guardrail_result, rule_result >>

Next == ChatReceive \/ ChatGuardrails \/ ChatRuleEngine \/ ChatAIFallback

Spec == Init /\ [][Next]_vars

(***************************************************************************)
(* src/utils/guardrails.py: check_guardrails called on a raw message       *)
(***************************************************************************)
GuardInit == Idle("guard_idle", [state |-> "missing"], [state |-> "missing"])

GuardCall ==
    /\ pc = "guard_idle"
    /\ \E m \in GuardMessages :
          /\ message' = m
          /\ guardrail_result' = check_guardrails(m)
    /\ calls' = Append(calls, "check_guardrails")
    /\ pc' = "guard_done"
    /\ UNCHANGED admin_vars
    /\ UNCHANGED << admin_file, kb_file, student_profile, user_message, rule_result,
                    ai_env, ai_result, response, source >>

SpecGuard == GuardInit /\ [][GuardCall]_vars

(***************************************************************************)
(* src/utils/rule_engine.py: find_answer called on a message and a profile *)
(***************************************************************************)
RulesInit ==
    \E admin \in AdminFiles, kb \in KnowledgeBaseFiles : Idle("rules_idle", admin, kb)

RulesCall ==
    /\ pc = "rules_idle"
    /\ \E m \in RuleMessages, profile \in Profiles, today \in Days, pick \in Picks :
          /\ user_message' = m
          /\ student_profile' = profile
          /\ rule_result' = find_answer(m, profile, admin_file, kb_file, today, pick)
    /\ calls' = Append(calls, "find_answer")
    /\ pc' = "rules_done"
    /\ UNCHANGED admin_vars
    /\ UNCHANGED << admin_file, kb_file, message, guardrail_result, ai_env, ai_result,
                    response, source >>

SpecRules == RulesInit /\ [][RulesCall]_vars

(***************************************************************************)
(* src/utils/rule_engine.py: find_answer called with no admin data to draw *)
(* on, so that the message is matched against the knowledge base (without  *)
(* a profile no block reads the clock, so the day is immaterial)           *)
(***************************************************************************)
KnowledgeInit ==
    \E admin \in AdminStores, kb \in KnowledgeBaseStores : Idle("kb_idle", admin, kb)

KnowledgeCall ==
    /\ pc = "kb_idle"
    /\ \E m \in KnowledgeMessages, pick \in Picks :
          /\ user_message' = m
          /\ rule_result' = find_answer(m, NoProfile, admin_file, kb_file, "Monday", pick)
    /\ calls' = Append(calls, "find_answer")
    /\ pc' = "kb_done"
    /\ UNCHANGED admin_vars
    /\ UNCHANGED << admin_file, kb_file, message, student_profile, guardrail_result,
                    ai_env, ai_result, response, source >>

SpecKnowledge == KnowledgeInit /\ [][KnowledgeCall]_vars

(***************************************************************************)
(* src/app.py: the admin routes.  Every request carries the session cookie *)
(* of its browser; flash() only queues a message for the next page, so the *)
(* message is part of the reply here.                                      *)
(***************************************************************************)
AdminInit ==
    Idle("admin_idle", [state |-> "ok", data |-> CampusAdminData],
         [state |-> "ok", data |-> CampusKnowledgeBase])

\* The request served by a step and the reply it got
Served(browser, route, username, secret, reply, text, otp) ==
    request' = [session |-> browser, route |-> route, username |-> username,
                secret |-> secret, at |-> now, reply |-> reply, message |-> text,
                otp |-> otp]

\* otp_issued after authenticate_admin returned result for username
IssuedAfter(issued, username, result, time) ==
    IF result.success
      THEN [issued EXCEPT ![username] =
                [present |-> TRUE, otp |-> result.otp, timestamp |-> time]]
      ELSE issued

\* failed_logins after authenticate_admin returned result for username: a
\* success ends the row of failures; after MAX_LOGIN_ATTEMPTS of them the
\* failures of the next LOCKOUT_DURATION seconds leave it as it is, and the
\* first failure after that starts a new row
FailedAfter(failed, username, result, time) ==
    LET row == failed[username]
    IN  IF result.success THEN [failed EXCEPT ![username] = NoFailures]
        ELSE IF row.count < MAX_LOGIN_ATTEMPTS
          THEN [failed EXCEPT ![username] = [count |-> row.count + 1, last |-> time]]
        ELSE IF time - row.last < LOCKOUT_DURATION THEN failed
        ELSE [failed EXCEPT ![username] = [count |-> 1, last |-> time]]

\* The state after authenticate_admin returned result to the session of browser
Authenticated(browser, username, result) ==
    /\ sessions' = [sessions EXCEPT ![browser] = result.session]
    /\ otp_storage' = result.otp_storage
    /\ login_attempts' = result.login_attempts
    /\ otp_issued' = IssuedAfter(otp_issued, username, result, now)
    /\ failed_logins' = FailedAfter(failed_logins, username, result, now)

\* admin_required: whether the decorated view is called
admin_required_anyone(session) == TRUE

admin_required(session) == is_admin_authenticated(session)

\* The reply of admin_required to a session that is not authenticated
RedirectToLogin(browser, route) ==
    Served(browser, route, None, None, "redirect:admin_login",
           "Please login to access the admin panel.", None)

\* admin_login once authenticate_admin has returned result
LoginPosted(browser, username, password, result) ==
    /\ Authenticated(browser, username, result)
    /\ Served(browser, "admin_login", username, password,
              IF result.success THEN "admin_login.html:otp" ELSE "admin_login.html:login",
              result.message, result.otp)

\* admin_login: /secure-admin/login
AdminLogin ==
    /\ pc = "admin_idle"
    /\ \E browser \in Browsers :
          IF is_admin_authenticated(sessions[browser])
            THEN /\ Served(browser, "admin_login", None, None,
                           "redirect:admin_dashboard", None, None)
                 /\ UNCHANGED << sessions, otp_storage, login_attempts, otp_issued,
                                 failed_logins >>
            ELSE \/ /\ Served(browser, "admin_login", None, None,
                              "admin_login.html:login", None, None)
                    /\ UNCHANGED << sessions, otp_storage, login_attempts, otp_issued,
                                    failed_logins >>
                 \/ \E username \in AccountNames, password \in Passwords,
                       otp \in OtpDraws :
                       LoginPosted(browser, username, password,
                                   authenticate_admin(login_attempts, otp_storage,
                                                      sessions[browser], username,
                                                      password, otp, now))
    /\ UNCHANGED << chat_vars, threads, admin_file, now >>

\* admin_verify_otp once complete_authentication has returned result
OtpPosted(browser, pending_username, otp, result) ==
    /\ sessions' = [sessions EXCEPT ![browser] = result.session]
    /\ otp_storage' = result.otp_storage
    /\ Served(browser, "admin_verify_otp", pending_username, otp,
              IF result.success THEN "redirect:admin_dashboard"
              ELSE "redirect:admin_login",
              result.message, None)

\* admin_verify_otp: /secure-admin/verify-otp
AdminVerifyOtp ==
    /\ pc = "admin_idle"
    /\ \E browser \in Browsers :
          IF sessions[browser].pending_admin_username = None
            THEN /\ Served(browser, "admin_verify_otp", None, None,
                           "redirect:admin_login",
                           "Session expired. Please login again.", None)
                 /\ UNCHANGED << sessions, otp_storage >>
            ELSE \E otp \in OtpDraws :
                    OtpPosted(browser, sessions[browser].pending_admin_username, otp,
                              complete_authentication(
                                  otp_storage, sessions[browser],
                                  sessions[browser].pending_admin_username, otp, now))
    /\ UNCHANGED << chat_vars, threads, admin_file, now, login_attempts, otp_issued,
                    failed_logins >>

\* admin_logout: /secure-admin/logout
AdminLogout ==
    /\ pc = "admin_idle"
    /\ \E browser \in Browsers :
          /\ sessions' = [sessions EXCEPT ![browser] = logout_admin(sessions[browser])]
          /\ Served(browser, "admin_logout", None, None, "redirect:admin_login",
                    "You have been logged out successfully.", None)
    /\ UNCHANGED << chat_vars, threads, admin_file, now, otp_storage, login_attempts,
                    otp_issued, failed_logins >>

\* admin_dashboard: /secure-admin, under admin_required
AdminDashboard ==
    /\ pc = "admin_idle"
    /\ \E browser \in Browsers :
          IF admin_required(sessions[browser])
            THEN Served(browser, "admin_dashboard", sessions[browser].admin_username,
                        None, "admin.html", None, None)
            ELSE RedirectToLogin(browser, "admin_dashboard")
    /\ UNCHANGED << chat_vars, threads, admin_file, now, sessions, otp_storage, login_attempts,
                    otp_issued, failed_logins >>

\* get_admin_data: GET /secure-admin/data, under admin_required
GetAdminData ==
    /\ pc = "admin_idle"
    /\ \E browser \in Browsers :
          IF admin_required(sessions[browser])
            THEN Served(browser, "get_admin_data", None, None,
                        IF admin_file.state = "missing" THEN "json:404"
                        ELSE IF admin_file.state = "ok" THEN "json:200"
                        ELSE "json:500",
                        None, None)
            ELSE RedirectToLogin(browser, "get_admin_data")
    /\ UNCHANGED << chat_vars, threads, admin_file, now, sessions, otp_storage, login_attempts,
                    otp_issued, failed_logins >>

\* save_admin_data: POST /secure-admin/data, under admin_required;
\* request.get_json() raises on a body that is no JSON, before the file is
\* opened
SaveAdminData ==
    /\ pc = "admin_idle"
    /\ \E browser \in Browsers, body \in SaveBodies :
          IF admin_required(sessions[browser])
            THEN IF body.valid
                   THEN /\ admin_file' = [state |-> "ok", data |-> body.data]
                        /\ Served(browser, "save_admin_data", None, body.tag,
                                  "json:200", "Data saved successfully", None)
                   ELSE /\ Served(browser, "save_admin_data", None, body.tag,
                                  "json:500", None, None)
                        /\ UNCHANGED admin_file
            ELSE /\ RedirectToLogin(browser, "save_admin_data")
                 /\ UNCHANGED admin_file
    /\ UNCHANGED << chat_vars, threads, now, sessions, otp_storage, login_attempts, otp_issued,
                    failed_logins >>

\* Time passes between two requests
Tick ==
    /\ now < MaxTicks * ClockStep
    /\ now' = now + ClockStep
    /\ request' = NoAdminRequest
    /\ UNCHANGED << chat_vars, threads, admin_file, sessions, otp_storage, login_attempts,
                    otp_issued, failed_logins >>

\* The admin routes, served at one reading of the clock
AdminNext ==
    \/ AdminLogin \/ AdminVerifyOtp \/ AdminLogout
    \/ AdminDashboard \/ GetAdminData \/ SaveAdminData

SpecAdmin == AdminInit /\ [][AdminNext]_vars

\* The three routes of the login, with time passing between the requests
OtpNext == AdminLogin \/ AdminVerifyOtp \/ AdminLogout \/ Tick

SpecOtp == AdminInit /\ [][OtpNext]_vars

(***************************************************************************)
(* src/utils/admin_auth.py: authenticate_admin called again and again from *)
(* one session, at the times the clock gives                               *)
(***************************************************************************)
LoginInit ==
    Idle("login_idle", [state |-> "ok", data |-> CampusAdminData],
         [state |-> "ok", data |-> CampusKnowledgeBase])

\* The call and what it returned
LoginReturned(username, password, result) ==
    /\ Authenticated("s1", username, result)
    /\ Served("s1", "authenticate_admin", username, password, result.success,
              result.message, result.otp)

LoginCall ==
    /\ pc = "login_idle"
    /\ \E username \in LoginNames, password \in Passwords, otp \in OtpDraws :
          LoginReturned(username, password,
                        authenticate_admin(login_attempts, otp_storage, sessions["s1"],
                                           username, password, otp, now))
    /\ UNCHANGED << chat_vars, threads, admin_file, now >>

SpecLogin == LoginInit /\ [][LoginCall \/ Tick]_vars

(***************************************************************************)
(* src/utils/admin_auth.py: verify_otp served by several threads at once.  *)
(* app.run starts the threaded development server, _otp_storage is a dict  *)
(* of the module with no lock, and a thread may be suspended between any   *)
(* two statements of verify_otp; a single access to the dict is atomic.    *)
(* calls is the log of the OTPs created and of the OTPs accepted.          *)
(***************************************************************************)
\* The variables of chat that no request to an admin route touches
chat_idle_vars == << pc, kb_file, message, student_profile, user_message,
                     guardrail_result, rule_result, ai_env, ai_result, response,
                     source >>

RaceInit ==
    Idle("race_idle", [state |-> "ok", data |-> CampusAdminData],
         [state |-> "ok", data |-> CampusKnowledgeBase])

\* The log entries of create_otp_for_user and of a verify_otp that returned True
Created(username, otp, time) ==
    [call |-> "create_otp_for_user", username |-> username, otp |-> otp, at |-> time]

Verified(username, otp, time, began) ==
    [call |-> "verify_otp", username |-> username, otp |-> otp, at |-> time,
     began |-> began]

\* A thread that left verify_otp and admin_verify_otp with a return value
Returned(thread, success, text) ==
    [threads EXCEPT ![thread] =
        [@ EXCEPT !.at = "returned"] @@ [success |-> success, message |-> text]]

\* A thread whose request ended with an exception that nothing catches
Raised(thread, exception) ==
    [threads EXCEPT ![thread] = [@ EXCEPT !.at = "raised"] @@ [raised |-> exception]]

Moved(thread, position) == [threads EXCEPT ![thread].at = position]

\* admin_login with the form posted, served in one piece; generate_otp draws
\* an OTP it has not drawn before
RaceLogin ==
    /\ pc = "race_idle"
    /\ \E browser \in Browsers, username \in AccountNames, password \in Passwords,
          otp \in OtpDraws :
          /\ ~ is_admin_authenticated(sessions[browser])
          /\ \A i \in 1..Len(calls) : calls[i].otp # otp
          /\ LoginPosted(browser, username, password,
                         authenticate_admin(login_attempts, otp_storage,
                                            sessions[browser], username, password,
                                            otp, now))
          /\ calls' = IF verify_password(ADMIN_ACCOUNTS[username], password)
                          /\ ~ check_lockout(login_attempts, username, now).is_locked
                        THEN Append(calls, Created(username, otp, now))
                        ELSE calls
    /\ UNCHANGED << chat_idle_vars, admin_file, now, threads >>

\* admin_verify_otp up to the call of verify_otp: the pending username of
\* the session and the OTP of the form
VerifyOtpBegin ==
    /\ pc = "race_idle"
    /\ \E thread \in Threads, browser \in Browsers, otp \in OtpDraws :
          /\ threads[thread].at = "idle"
          /\ threads' =
               IF sessions[browser].pending_admin_username = None
                 THEN [threads EXCEPT ![thread] =
                          [at |-> "returned", session |-> browser, success |-> FALSE,
                           message |-> "Session expired. Please login again."]]
                 ELSE [threads EXCEPT ![thread] =
                          [at |-> "check", session |-> browser,
                           username |-> sessions[browser].pending_admin_username,
                           provided_otp |-> otp, began |-> Len(calls)]]
    /\ UNCHANGED << chat_vars, admin_file, now, sessions, otp_storage, login_attempts,
                    request, otp_issued, failed_logins >>

\* if username not in _otp_storage
VerifyOtpCheck ==
    /\ \E thread \in Threads :
          /\ threads[thread].at = "check"
          /\ threads' =
               IF otp_storage[threads[thread].username].present
                 THEN Moved(thread, "read")
                 ELSE Returned(thread, FALSE,
                               "No OTP generated for this user. Please login again.")
    /\ UNCHANGED << chat_vars, admin_file, now, sessions, otp_storage, login_attempts,
                    request, otp_issued, failed_logins >>

\* stored_data = _otp_storage[username]
VerifyOtpRead ==
    /\ \E thread \in Threads :
          /\ threads[thread].at = "read"
          /\ threads' =
               IF otp_storage[threads[thread].username].present
                 THEN [threads EXCEPT ![thread] =
                          [@ EXCEPT !.at = "expiry"]
                          @@ [stored_data |-> otp_storage[threads[thread].username]]]
                 ELSE Raised(thread, KeyError)
    /\ UNCHANGED << chat_vars, admin_file, now, sessions, otp_storage, login_attempts,
                    request, otp_issued, failed_logins >>

\* if time.time() - stored_data["timestamp"] > OTP_VALIDITY_SECONDS
VerifyOtpExpiry ==
    /\ \E thread \in Threads :
          /\ threads[thread].at = "expiry"
          /\ IF now - threads[thread].stored_data.timestamp <= OTP_VALIDITY_SECONDS
               THEN /\ threads' = Moved(thread, "match")
                    /\ UNCHANGED otp_storage
             ELSE IF otp_storage[threads[thread].username].present
               THEN /\ otp_storage' =
                         [otp_storage EXCEPT ![threads[thread].username] = Absent]
                    /\ threads' = Returned(thread, FALSE,
                                           "OTP has expired. Please login again.")
             ELSE /\ threads' = Raised(thread, KeyError)
                  /\ UNCHANGED otp_storage
    /\ UNCHANGED << chat_vars, admin_file, now, sessions, login_attempts, request,
                    otp_issued, failed_logins >>

\* if stored_data["otp"] != provided_otp
VerifyOtpMatch ==
    /\ \E thread \in Threads :
          /\ threads[thread].at = "match"
          /\ threads' =
               IF threads[thread].stored_data.otp # threads[thread].provided_otp
                 THEN Returned(thread, FALSE, "Invalid OTP. Please try again.")
                 ELSE Moved(thread, "delete")
    /\ UNCHANGED << chat_vars, admin_file, now, sessions, otp_storage, login_attempts,
                    request, otp_issued, failed_logins >>

\* del _otp_storage[username], return True, and complete_authentication
\* marks the session as authenticated
VerifyOtpDelete ==
    /\ \E thread \in Threads :
          /\ threads[thread].at = "delete"
          /\ IF otp_storage[threads[thread].username].present
               THEN /\ otp_storage' =
                         [otp_storage EXCEPT ![threads[thread].username] = Absent]
                    /\ sessions' =
                         [sessions EXCEPT ![threads[thread].session] =
                             OtpStep([success |-> TRUE,
                                      message |-> "OTP verified successfully.",
                                      otp_storage |-> otp_storage'],
                                     @, threads[thread].username).session]
                    /\ calls' = Append(calls,
                                       Verified(threads[thread].username,
                                                threads[thread].provided_otp, now,
                                                threads[thread].began))
                    /\ threads' = Returned(thread, TRUE, "OTP verified successfully.")
               ELSE /\ threads' = Raised(thread, KeyError)
                    /\ UNCHANGED << otp_storage, sessions, calls >>
    /\ UNCHANGED << chat_idle_vars, admin_file, now, login_attempts, request,
                    otp_issued, failed_logins >>

\* Time passes while no thread is inside a request
RaceTick ==
    /\ \A thread \in Threads : threads[thread].at \in { "idle", "returned", "raised" }
    /\ Tick

RaceNext ==
    \/ RaceLogin \/ RaceTick
    \/ VerifyOtpBegin \/ VerifyOtpCheck \/ VerifyOtpRead
    \/ VerifyOtpExpiry \/ VerifyOtpMatch \/ VerifyOtpDelete

SpecOtpRace == RaceInit /\ [][RaceNext]_vars

(***************************************************************************)
(* src/app.py: save_admin_data served by one thread while other threads    *)
(* serve chat requests.  open(ADMIN_DATA_FILE, 'w') truncates the file and *)
(* json.dump writes it afterwards; until the text is complete the file     *)
(* holds nothing or a part of the text, which json.load cannot parse.      *)
(* calls is the log of the data saved.                                     *)
(***************************************************************************)
\* The session of a browser after the admin has logged in with password and OTP
SignedIn ==
    OtpStep([success |-> TRUE, message |-> "OTP verified successfully.",
             otp_storage |-> [username \in LoginNames |-> Absent]],
            NewSession, "admin").session

SavingInit ==
    IdleWith("saving_idle", [state |-> "ok", data |-> CampusAdminData],
             [state |-> "ok", data |-> CampusKnowledgeBase],
             [browser \in Browsers |-> IF browser = "s1" THEN SignedIn ELSE NewSession])

\* The questions asked while the admin saves
SavingMessages == { "808", "where is room", "exam dates", "hello" }

\* save_admin_data up to open(): admin_required, and request.get_json()
SaveBegin ==
    /\ pc = "saving_idle"
    /\ \E thread \in Threads, browser \in Browsers, body \in SaveBodies :
          /\ threads[thread].at = "idle"
          /\ \A other \in Threads : threads[other].at \notin { "open", "dump" }
          /\ threads' =
               IF ~ admin_required(sessions[browser])
                 THEN [threads EXCEPT ![thread] =
                          [at |-> "returned", route |-> "save_admin_data",
                           reply |-> "redirect:admin_login"]]
               ELSE IF ~ body.valid
                 THEN [threads EXCEPT ![thread] =
                          [at |-> "returned", route |-> "save_admin_data",
                           reply |-> "json:500"]]
               ELSE [threads EXCEPT ![thread] =
                        [at |-> "open", route |-> "save_admin_data",
                         data |-> body.data]]
    /\ UNCHANGED << chat_vars, admin_file, now, sessions, otp_storage, login_attempts,
                    request, otp_issued, failed_logins >>

\* open(ADMIN_DATA_FILE, 'w'): the file is truncated
SaveOpen ==
    /\ \E thread \in Threads :
          /\ threads[thread].at = "open"
          /\ admin_file' = [state |-> "corrupt"]
          /\ calls' = Append(calls, threads[thread].data)
          /\ threads' = Moved(thread, "dump")
    /\ UNCHANGED << chat_idle_vars, now, sessions, otp_storage, login_attempts,
                    request, otp_issued, failed_logins >>

\* json.dump(data, f), the file is closed, and the reply
SaveDump ==
    /\ \E thread \in Threads :
          /\ threads[thread].at = "dump"
          /\ admin_file' = [state |-> "ok", data |-> threads[thread].data]
          /\ threads' = [threads EXCEPT ![thread] =
                            [at |-> "returned", route |-> "save_admin_data",
                             reply |-> "json:200"]]
    /\ UNCHANGED << chat_vars, now, sessions, otp_storage, login_attempts, request,
                    otp_issued, failed_logins >>

\* find_answer up to admin_data = load_admin_data()
ChatLoad ==
    /\ pc = "saving_idle"
    /\ \E thread \in Threads, m \in SavingMessages, pick \in Picks :
          /\ threads[thread].at = "idle"
          /\ threads' = [threads EXCEPT ![thread] =
                            [at |-> "loaded", route |-> "chat", user_message |-> m,
                             pick |-> pick,
                             admin_data |-> load_admin_data(admin_file)]]
    /\ UNCHANGED << chat_vars, admin_file, now, sessions, otp_storage, login_attempts,
                    request, otp_issued, failed_logins >>

\* find_answer from the first priority block to its return
ChatAnswer ==
    /\ \E thread \in Threads :
          /\ threads[thread].at = "loaded"
          /\ threads' =
               [threads EXCEPT ![thread] =
                   [@ EXCEPT !.at = "answered"]
                   @@ [rule_result |->
                          AnswerFrom(@.user_message, get_keywords(@.user_message),
                                     Lower(@.user_message), @.admin_data, NoProfile,
                                     kb_file, "Monday", @.pick)]]
    /\ UNCHANGED << chat_vars, admin_file, now, sessions, otp_storage, login_attempts,
                    request, otp_issued, failed_logins >>

SavingNext == SaveBegin \/ SaveOpen \/ SaveDump \/ ChatLoad \/ ChatAnswer

SpecSaving == SavingInit /\ [][SavingNext]_vars

(***************************************************************************)
(* Properties of check_guardrails, checked under SpecGuard                 *)
(***************************************************************************)
\* The predicate of the n-th check, evaluated on its own
CheckFails(n, m) ==
    CASE n = 1 -> ~ is_valid_input(m).is_valid
      [] n = 2 -> is_spam(m)
      [] n = 3 -> contains_blocked_words(m)
      [] n = 4 -> is_personal_question(m)
      [] n = 5 -> is_off_topic(m)
      [] n = 6 -> contains_personal_info(m)

FailingChecks(m) == { n \in 1..6 : CheckFails(n, m) }

StatedOrder ==
    << "input_validation", "spam_detection", "blocked_words",
       "personal_question", "off_topic", "personal_info" >>

GuardReturned == pc = "guard_done"

\* C4: check_guardrails runs its six checks in the order input_validation,
\* spam_detection, blocked_words, personal_question, off_topic, personal_info:
\* failed_check is the earliest check in that order whose predicate holds for
\* the message, no later check is run, and the result is safe with no
\* failed_check exactly when no predicate holds.
C4_FixedOrder ==
    GuardReturned =>
        LET failing == FailingChecks(message)
            first == CHOOSE n \in failing : \A k \in failing : n <= k
        IN  IF failing = {}
              THEN /\ guardrail_result.is_safe
                   /\ guardrail_result.failed_check = None
                   /\ guardrail_result.checks_run = StatedOrder
              ELSE /\ ~ guardrail_result.is_safe
                   /\ guardrail_result.failed_check = StatedOrder[first]
                   /\ guardrail_result.checks_run = SubSeq(StatedOrder, 1, first)

\* C4's case: a personal question that is off-topic as well is reported as a
\* personal question, and the off-topic check is not run
C4_Witness ==
    /\ GuardReturned
    /\ guardrail_result.failed_check = "personal_question"
    /\ is_off_topic(message)
    /\ guardrail_result.checks_run = SubSeq(StatedOrder, 1, 4)

NoLetters(m) == \A i \in 1..Len(m) : At(m, i) \notin LetterChars

FailsInputValidation ==
    /\ ~ guardrail_result.is_safe
    /\ guardrail_result.failed_check = "input_validation"

\* C5 as stated: a message that is empty, whitespace-only, of length 1, of
\* length greater than 500, or without letters fails input_validation.
C5_AsStated ==
    ( /\ GuardReturned
      /\ \/ message = ""
         \/ Strip(message) = ""
         \/ Len(message) = 1
         \/ Len(message) > 500
         \/ NoLetters(message) )
    => FailsInputValidation

\* C5, amended: a message that is empty, whitespace-only, of length 1, of
\* length greater than 500 once the surrounding whitespace is trimmed, or
\* without letters fails input_validation.
C5_TrimmedLength ==
    ( /\ GuardReturned
      /\ \/ message = ""
         \/ Strip(message) = ""
         \/ Len(message) = 1
         \/ Len(Strip(message)) > 500
         \/ NoLetters(message) )
    => FailsInputValidation

\* C5's case: a message of letters rejected for its length alone
C5_Witness ==
    /\ GuardReturned
    /\ Len(Strip(message)) > 500
    /\ ~ NoLetters(message)
    /\ FailsInputValidation
    /\ guardrail_result.message = TOO_LONG_MESSAGE

\* C6 as stated: a message containing a denylisted word as a whole word is
\* blocked whatever off-topic keywords it also contains, and the reply is
\* exactly BLOCKED_CONTENT_MESSAGE.
C6_AsStated ==
    (GuardReturned /\ contains_blocked_words(message))
    => /\ ~ guardrail_result.is_safe
       /\ guardrail_result.message = BLOCKED_CONTENT_MESSAGE

\* C6, amended: a message containing a denylisted word as a whole word is
\* never safe, whatever off-topic keywords it also contains; the reply is
\* exactly BLOCKED_CONTENT_MESSAGE when the message passes input validation
\* and spam detection, which are run first and otherwise give their own reply.
C6_BlockedAfterValidationAndSpam ==
    (GuardReturned /\ contains_blocked_words(message))
    => /\ ~ guardrail_result.is_safe
       /\ IF is_valid_input(message).is_valid /\ ~ is_spam(message)
            THEN /\ guardrail_result.failed_check = "blocked_words"
                 /\ guardrail_result.message = BLOCKED_CONTENT_MESSAGE
            ELSE guardrail_result.failed_check \in {"input_validation", "spam_detection"}

\* C6's case: a denylisted word next to an off-topic keyword
C6_Witness ==
    /\ GuardReturned
    /\ contains_blocked_words(message)
    /\ is_off_topic(message)
    /\ guardrail_result.failed_check = "blocked_words"
    /\ guardrail_result.message = BLOCKED_CONTENT_MESSAGE

\* The sub-case of input validation a message falls in
ValidationSubcase(m) ==
    IF Strip(m) = "" THEN "empty"
    ELSE IF Len(Strip(m)) < 2 THEN "too_short"
    ELSE IF Len(Strip(m)) > 500 THEN "too_long"
    ELSE IF NoLetters(Strip(m)) THEN "no_text"
    ELSE "valid"

\* The failure category of a result for message m, with the sub-case
FailureCategory(m, result) ==
    << result.failed_check,
       IF result.failed_check = "input_validation" THEN ValidationSubcase(m) ELSE "" >>

\* Failing messages to compare with, at least one of every check and sub-case
ReferenceMessages ==
    { "", "a", LongText(MAX_MESSAGE_LENGTH + 1), "9876543210", "HELP ME NOW",
      "hack", "salary", "party", "fees 9876543210", "fees me@bca.in" }

FailureTexts ==
    { EMPTY_INPUT_MESSAGE, TOO_SHORT_MESSAGE, TOO_LONG_MESSAGE, NO_TEXT_MESSAGE,
      SPAM_MESSAGE, BLOCKED_CONTENT_MESSAGE, PERSONAL_QUESTION_MESSAGE,
      OFF_TOPIC_MESSAGE, PRIVACY_MESSAGE }

\* C7: the text of a failing check_guardrails depends only on the failure
\* category (and, for input validation, the sub-case): it is one of a fixed
\* set of constants, and any other message failing the same check and
\* sub-case gets the identical text.
C7_TextByCategory ==
    (GuardReturned /\ ~ guardrail_result.is_safe)
    => /\ guardrail_result.message \in FailureTexts
       /\ \A other \in ReferenceMessages :
              ( /\ ~ check_guardrails(other).is_safe
                /\ FailureCategory(other, check_guardrails(other))
                     = FailureCategory(message, guardrail_result) )
              => check_guardrails(other).message = guardrail_result.message

\* C7's case: two different messages with a denylisted word get the same text
C7_Witness ==
    /\ GuardReturned
    /\ guardrail_result.failed_check = "blocked_words"
    /\ message # "hack"
    /\ FailureCategory("hack", check_guardrails("hack"))
         = FailureCategory(message, guardrail_result)
    /\ check_guardrails("hack").message = guardrail_result.message

\* word stands in text at i with no word character right before or after it
StandsAlone(text, word, i) ==
    /\ StartsAt(text, word, i)
    /\ i = 1 \/ At(text, i - 1) \notin WordChars
    /\ i + Len(word) > Len(text) \/ At(text, i + Len(word)) \notin WordChars

ListedWordStandsAlone(text) ==
    \E w \in 1..Len(BLOCKED_WORDS) : \E i \in 1..Len(text) :
        StandsAlone(text, BLOCKED_WORDS[w], i)

\* C20: contains_blocked_words is true exactly when some denylist word occurs
\* in the lower-cased message with a word boundary on both sides: a denylist
\* word that is only a proper part of a longer word does not trigger the
\* check, the word standing alone does, in any letter case.  Where
\* check_guardrails ran the check, it failed there exactly in that case.
C20_WholeWordsOnly ==
    GuardReturned
    => /\ contains_blocked_words(message) <=> ListedWordStandsAlone(Lower(message))
       /\ "blocked_words" \in Range(guardrail_result.checks_run)
            => (guardrail_result.failed_check = "blocked_words"
                    <=> ListedWordStandsAlone(Lower(message)))

\* C20's case: "hack" inside "hackathon" passes, "HACK" on its own does not
C20_Witness ==
    /\ GuardReturned
    /\ message = "hackathon hack"
    /\ guardrail_result.failed_check = "blocked_words"
    /\ Contains(message, "hack") /\ ~ contains_blocked_words("hackathon")
    /\ check_guardrails("hackathon").is_safe
    /\ contains_blocked_words("HACK THE PORTAL")

\* text has n equal characters in a row somewhere
HasRun(text, n) ==
    \E i \in 1..(Len(text) - n + 1) : \A k \in 1..(n - 1) : At(text, i + k) = At(text, i)

PunctuationCount(text) ==
    Cardinality({ i \in 1..Len(text) : At(text, i) \in {"!", "?", ".", ","} })

SpamAsStated(text) ==
    \/ HasRun(text, 6)
    \/ Len(text) > 10 /\ IsUpperStr(text)
    \/ PunctuationCount(text) > 10

\* C21: is_spam is true exactly when the message has a run of 6 or more
\* identical consecutive characters, or is longer than 10 and entirely
\* upper-case, or holds more than 10 of the characters ! ? . and , (so a run
\* of 5, an upper-case message of length 10 and exactly 10 punctuation
\* characters are not spam).  Where check_guardrails ran the check, it failed
\* there exactly in that case.
C21_SpamExactly ==
    GuardReturned
    => /\ is_spam(message) <=> SpamAsStated(message)
       /\ "spam_detection" \in Range(guardrail_result.checks_run)
            => (guardrail_result.failed_check = "spam_detection"
                    <=> SpamAsStated(message))

(***************************************************************************)
(* Properties of find_answer, checked under SpecRules                      *)
(***************************************************************************)
RulesReturned == pc = "rules_done"

\* The message matches the test of the room block and that of the timetable block
BothTriggers(m) ==
    /\ RoomTrigger(get_keywords(m), Lower(m))
    /\ TimetableTrigger(get_keywords(m))

RoomLookupAnswers(admin_data, m) ==
    /\ admin_data.room_directory # << >>
    /\ \/ ExtractRoomToken(Lower(m)) # None
       \/ \E k \in 1..Len(admin_data.room_directory) :
              Contains(Lower(m), Lower(admin_data.room_directory[k].key))
       \/ \E w \in {"room", "where", "location", "building"} : Contains(Lower(m), w)

PartialProfile(profile) ==
    /\ ~ profile.is_none
    /\ "dept" \in profile.has
    /\ profile.dept # ""
    /\ ~ ({"semester", "section"} \subseteq profile.has)

\* C9: the timetable key is "{dept}_{semester}_{section}"; a profile with its
\* department set but its semester or section missing matches no timetable
\* and gets the answer of a lookup miss, not an error, from the today's-classes
\* block and from the full-timetable block.
C9_LookupMiss ==
    /\ ( /\ RulesReturned
         /\ load_admin_data(admin_file).is_dict
         /\ {"dept", "semester", "section"} \subseteq student_profile.has
         /\ rule_result.intent = "timetable" )
       => ( HasKey(load_admin_data(admin_file).timetables,
                   student_profile.dept \o "_" \o student_profile.semester \o "_"
                       \o student_profile.section)
            <=> StartsAt(rule_result.answer, "**YOUR TIMETABLE**", 1) )
    /\ ( /\ RulesReturned
         /\ load_admin_data(admin_file).is_dict
         /\ PartialProfile(student_profile)
         /\ Len(rule_result.evaluated) \in {2, 3}
         /\ \/ TodayTrigger(get_keywords(user_message), Lower(user_message))
            \/ TimetableTrigger(get_keywords(user_message)) )
       => /\ rule_result.raised = None
          /\ rule_result.found
          /\ rule_result.intent \in {"todays_classes", "timetable"}
          /\ StartsAt(rule_result.answer, "No timetable found for", 1)

\* A directory entry whose key is room_num, compared without regard to case
RoomEntries(room_directory, room_num) ==
    { k \in 1..Len(room_directory) : Lower(room_directory[k].key) = Lower(room_num) }

\* C10: for a query "... room N ..." with a numeric token N and a non-empty
\* room directory, find_answer returns the block of Room N with the entry's
\* floor, wing, type and capacity if N is a key of the directory, and the
\* not-found message naming N and the admin office if it is not; either way
\* found is true, the confidence 0.95 and the intent room_location.
C10_RoomAnswer ==
    ( /\ RulesReturned
      /\ load_admin_data(admin_file).is_dict
      /\ load_admin_data(admin_file).room_directory # << >>
      /\ SearchRoomNumber(Lower(user_message)) # None )
    => LET room_directory == load_admin_data(admin_file).room_directory
           room_num == SearchRoomNumber(Lower(user_message))
           keys == RoomEntries(room_directory, room_num)
       IN  /\ rule_result.found
           /\ rule_result.confidence = 95
           /\ rule_result.intent = "room_location"
           /\ rule_result.answer =
                  IF keys # {}
                    THEN RoomInfoText(room_directory[CHOOSE k \in keys : TRUE])
                    ELSE "Room " \o room_num
                         \o " not found in directory. Please check with the admin office."

\* The words whose presence, or a 3-digit number, is stated to trigger the
\* room-location branch
StatedRoomWords == { "room", "where", "location", "floor", "wing", "lab", "find" }

StatedRoomTrigger(m) ==
    \/ \E k \in 1..Len(Split(preprocess_text(m))) :
           Split(preprocess_text(m))[k] \in StatedRoomWords
    \/ SearchThreeDigits(Lower(m)) # None

\* m holds no room token and names no key of the directory
NoRoomToken(room_directory, m) ==
    /\ ExtractRoomToken(Lower(m)) = None
    /\ \A k \in 1..Len(room_directory) : ~ Contains(Lower(m), Lower(room_directory[k].key))

\* C22: the room-location branch is evaluated for every message that contains
\* one of the words room, where, location, floor, wing, lab, find, or a
\* 3-digit number; when such a message has no extractable room token and
\* mentions room, where, location or building, and the room directory is not
\* empty, find_answer returns a listing of at most 10 directory entries with
\* intent room_location.
C22_RoomBranch ==
    (RulesReturned /\ StatedRoomTrigger(user_message))
    => /\ "room_location" \in Range(rule_result.entered)
       /\ LET admin_data == load_admin_data(admin_file)
          IN  ( /\ admin_data.is_dict
                /\ admin_data.room_directory # << >>
                /\ NoRoomToken(admin_data.room_directory, user_message)
                /\ ContainsAny(Lower(user_message),
                               << "room", "where", "location", "building" >>) )
              => /\ rule_result.found
                 /\ rule_result.intent = "room_location"
                 /\ rule_result.answer = RoomListing(admin_data.room_directory)

\* The specialized branches that m triggers and that have nothing to say:
\* room with an empty directory, or with no token and no listing word; exam
\* with no exam schedule; faculty with no faculty data
Declining(admin_data, m) ==
    IF ~ admin_data.is_dict THEN {}
    ELSE { block \in { "room_location", "exam_schedule", "faculty" } :
             \/ /\ block = "room_location"
                /\ RoomTrigger(get_keywords(m), Lower(m))
                /\ \/ admin_data.room_directory = << >>
                   \/ /\ NoRoomToken(admin_data.room_directory, m)
                      /\ ~ ContainsAny(Lower(m),
                                       << "room", "where", "location", "building" >>)
             \/ /\ block = "exam_schedule"
                /\ ExamTrigger(get_keywords(m))
                /\ admin_data.exam_schedule.is_empty
             \/ /\ block = "faculty"
                /\ FacultyTrigger(get_keywords(m))
                /\ admin_data.faculty = << >> }

BlockIndex(block) == CHOOSE i \in 1..Len(PRIORITY_BLOCKS) : PRIORITY_BLOCKS[i] = block

\* C23: a specialized branch that is triggered but has no result does not end
\* the search: the branches are tested in priority order, none skipped, the
\* test of the next branch is run after such a branch, and found = false is
\* returned only after every branch was tested and knowledge-base matching
\* has run.
C23_FallThrough ==
    RulesReturned
    => /\ rule_result.evaluated = SubSeq(PRIORITY_BLOCKS, 1, Len(rule_result.evaluated))
       /\ \A block \in Declining(load_admin_data(admin_file), user_message) :
             block \in Range(rule_result.evaluated)
             => /\ block \in Range(rule_result.entered)
                /\ Len(rule_result.evaluated) > BlockIndex(block)
                /\ rule_result.intent # block
       /\ (rule_result.raised = None /\ ~ rule_result.found)
             => /\ rule_result.evaluated = PRIORITY_BLOCKS
                /\ "knowledge_base" \in Range(rule_result.entered)

\* C23's case: room, exam and faculty are all triggered with no admin data,
\* and the message is declined by the knowledge base in the end
C23_Witness ==
    /\ RulesReturned
    /\ Declining(load_admin_data(admin_file), user_message)
         = { "room_location", "exam_schedule", "faculty" }
    /\ rule_result.entered
         = << "room_location", "exam_schedule", "faculty", "custom_section",
              "knowledge_base" >>
    /\ ~ rule_result.found
    /\ rule_result.raised = None

(***************************************************************************)
(* Properties of chat, checked under Spec                                  *)
(***************************************************************************)
Count(name) == Cardinality({ i \in 1..Len(calls) : calls[i] = name })

\* C1: when the trimmed, non-empty message fails check_guardrails, chat
\* returns the guardrail's message with source "guardrail", and neither
\* find_answer nor get_ai_response is invoked during the request.
C1_GuardrailShortCircuit ==
    (guardrail_result # NotCalled /\ ~ guardrail_result.is_safe)
    => /\ pc = "done"
       /\ response = guardrail_result.message
       /\ source = "guardrail"
       /\ Count("find_answer") = 0
       /\ Count("get_ai_response") = 0

\* C1's case: a request stopped at the off-topic check
C1_Witness ==
    /\ pc = "done"
    /\ guardrail_result # NotCalled
    /\ guardrail_result.failed_check = "off_topic"
    /\ source = "guardrail"
    /\ response = OFF_TOPIC_MESSAGE
    /\ calls = << "check_guardrails" >>

\* C2: get_ai_response is invoked at most once in a request, and only after
\* check_guardrails returned is_safe = true and find_answer returned
\* found = false; when find_answer returns found = true the response is its
\* answer with source "knowledge_base" and get_ai_response is not invoked.
C2_AIOnlyAfterBothDecline ==
    /\ Count("get_ai_response") <= 1
    /\ Count("get_ai_response") = 1
         => /\ calls = << "check_guardrails", "find_answer", "get_ai_response" >>
            /\ guardrail_result # NotCalled
            /\ guardrail_result.is_safe
            /\ rule_result # NotCalled
            /\ rule_result.raised = None
            /\ ~ rule_result.found
    /\ (rule_result # NotCalled /\ rule_result.found)
         => /\ pc = "done"
            /\ response = rule_result.answer
            /\ source = "knowledge_base"
            /\ Count("get_ai_response") = 0

\* C2's case: both layers declined and the provider answered
C2_Witness ==
    /\ pc = "done"
    /\ source = "ai"
    /\ Count("get_ai_response") = 1
    /\ ai_result # NotCalled
    /\ ai_result.requests = 1
    /\ response = ai_result.answer

\* C3: for every message, every profile (absent, empty, or with any subset
\* of dept, semester, section) and every content of the data files, chat
\* ends with a text and a source among system, guardrail, knowledge_base,
\* ai, fallback; no exception reaches the caller.
C3_AlwaysResponds ==
    /\ pc # "error"
    /\ pc = "done"
         => /\ response # None
            /\ source \in {"system", "guardrail", "knowledge_base", "ai", "fallback"}

(***************************************************************************)
(* Properties of knowledge-base matching, checked under SpecKnowledge      *)
(***************************************************************************)
\* find_answer returned from its knowledge-base block
KnowledgeReturned ==
    /\ pc = "kb_done"
    /\ rule_result.raised = None
    /\ rule_result.evaluated = PRIORITY_BLOCKS

\* The score of pattern p of intent k against the message m
ScoreAt(intents, m, k, p) ==
    PatternScore(preprocess_text(m), get_keywords(m), intents[k].patterns[p])

\* The patterns of the knowledge base, as pairs of intent and pattern index
PatternsOf(intents) ==
    { kp \in (1..Len(intents)) \X (1..3) : kp[2] <= Len(intents[kp[1]].patterns) }

\* The score of every pattern against the message m
ScoresOf(intents, m) ==
    [kp \in PatternsOf(intents) |-> ScoreAt(intents, m, kp[1], kp[2])]

\* The patterns whose score no other pattern exceeds
TopPatterns(scores) ==
    { kp \in DOMAIN scores :
        \A other \in DOMAIN scores : ~ FracLess(scores[kp], scores[other]) }

\* The winning intent: the first in file order to reach the best score
Winner(top) ==
    CHOOSE k \in { kp[1] : kp \in top } : \A kp \in top : k <= kp[1]

\* The match is accepted: the best score reaches the threshold and the
\* winning intent has a response
Accepted(intents, scores, top) ==
    /\ top # {}
    /\ \E kp \in top :
          /\ scores[kp].num > 0
          /\ scores[kp].num * 100 >= SIMILARITY_THRESHOLD * scores[kp].den
    /\ intents[Winner(top)].responses # << >>

\* The result is what the claim says of a knowledge base with these scores
MatchAsStated(result, intents, scores, top) ==
    /\ result.found <=> Accepted(intents, scores, top)
    /\ result.confidence =
           RoundHundredths(IF top = {} THEN [num |-> 0, den |-> 1]
                           ELSE scores[CHOOSE kp \in top : TRUE])
    /\ IF result.found
         THEN /\ result.answer \in Range(intents[Winner(top)].responses)
              /\ result.intent = intents[Winner(top)].tag
         ELSE /\ result.answer = None
              /\ result.intent = None

\* C11: in knowledge-base matching find_answer returns found = true exactly
\* when the best score over all patterns of all intents is at least the
\* threshold 0.6 and the winning intent has a response; the answer is then
\* one of its responses and intent its tag.  Otherwise found is false,
\* answer and intent are none, and confidence is the rounded best score.
C11_KnowledgeBaseMatch ==
    KnowledgeReturned =>
        LET intents == load_knowledge_base(kb_file).intents
            scores == ScoresOf(intents, user_message)
        IN  MatchAsStated(rule_result, intents, scores, TopPatterns(scores))

\* C11's cases: a match accepted with the second of two responses, and a
\* best score above the threshold rejected for want of a response
C11_Witness ==
    /\ KnowledgeReturned
    /\ rule_result.found
    /\ rule_result.intent = "greeting"
    /\ rule_result.answer = "Hi there!"

C11_WitnessNoResponse ==
    /\ KnowledgeReturned
    /\ ~ rule_result.found
    /\ rule_result.confidence >= SIMILARITY_THRESHOLD

\* C12: every MatchResult returned by find_answer has a confidence in [0,1],
\* whatever the message, the profile, the admin data and the knowledge base.
C12_ConfidenceInUnitInterval ==
    (pc \in {"kb_done", "rules_done"} /\ rule_result.raised = None)
    => /\ rule_result.confidence >= 0
       /\ rule_result.confidence <= 100

\* The score of pattern p of intent k against the message m before the
\* coverage floor is applied
UnflooredScoreAt(intents, m, k, p) ==
    CombinedScore(calculate_similarity(preprocess_text(m),
                                       preprocess_text(intents[k].patterns[p])),
                  KeywordSimilarity(get_keywords(m), get_keywords(intents[k].patterns[p])))

\* The share of the pattern's keywords that are among the message's keywords
KeywordOverlapRatio(user_keywords, pattern_keywords) ==
    IF pattern_keywords = << >> THEN [num |-> 0, den |-> 1]
    ELSE [num |-> Cardinality({ k \in 1..Len(pattern_keywords) :
                                  InList(pattern_keywords[k], user_keywords) }),
          den |-> Len(pattern_keywords)]

FracEqual(x, y) == x.num * y.den = y.num * x.den

\* C24: for every message and pattern that reach knowledge-base matching,
\* the score before the coverage floor is 0.4 * stringSimilarity
\* + 0.6 * keywordOverlapRatio, the ratio being the number of the pattern's
\* keywords found among the message's keywords over the pattern's keyword
\* count, and 0 for a pattern without keywords.
C24_ScoreFormula ==
    KnowledgeReturned =>
        LET intents == load_knowledge_base(kb_file).intents
        IN  \A kp \in PatternsOf(intents) :
               FracEqual(UnflooredScoreAt(intents, user_message, kp[1], kp[2]),
                         CombinedScore(
                             calculate_similarity(
                                 preprocess_text(user_message),
                                 preprocess_text(intents[kp[1]].patterns[kp[2]])),
                             KeywordOverlapRatio(
                                 get_keywords(user_message),
                                 get_keywords(intents[kp[1]].patterns[kp[2]]))))

\* The first pattern in iteration order among the patterns kps
FirstOf(kps) ==
    CHOOSE kp \in kps :
        \A other \in kps :
            kp[1] < other[1] \/ (kp[1] = other[1] /\ kp[2] <= other[2])

\* best_match after the loops over the intents and patterns for the message m
BestMatchOf(intents, m) ==
    BestMatch(intents, preprocess_text(m), get_keywords(m), 1, 1,
              [score |-> [num |-> 0, den |-> 1], intent |-> None,
               responses |-> << >>])

\* best is the pair of the first pattern to reach the highest score (no
\* pattern is kept while every score is 0, the score the search starts from)
KeepsFirstOfBest(best, intents, scores, top) ==
    IF top = {} \/ (\A kp \in top : scores[kp].num = 0)
      THEN best.intent = None /\ best.responses = << >>
      ELSE /\ FracEqual(best.score, scores[FirstOf(top)])
           /\ best.intent = intents[FirstOf(top)[1]].tag
           /\ best.responses = intents[FirstOf(top)[1]].responses

\* C25: knowledge-base matching keeps the single highest-scoring pair of
\* intent and responses over all patterns of all intents in iteration
\* order; of several patterns with the highest score the first one met
\* wins, also when two intents share a tag, and an accepted answer is one
\* of the responses of that first intent.
C25_FirstBestWins ==
    KnowledgeReturned =>
        LET intents == load_knowledge_base(kb_file).intents
            scores == ScoresOf(intents, user_message)
            top == TopPatterns(scores)
        IN  /\ KeepsFirstOfBest(BestMatchOf(intents, user_message), intents, scores, top)
            /\ rule_result.found
                 => rule_result.answer \in Range(intents[FirstOf(top)[1]].responses)

\* C25's case: two intents of one tag reach the same highest score and the
\* answer is the response of the first
C25_Witness ==
    /\ KnowledgeReturned
    /\ kb_file = [state |-> "ok", data |-> SplitKnowledgeBase]
    /\ LET scores == ScoresOf(SplitKnowledgeBase.intents, user_message)
       IN  { kp[1] : kp \in TopPatterns(scores) } = { 1, 2 }
    /\ rule_result.found
    /\ rule_result.answer = "Hello!"

\* Every keyword of the pattern is a keyword of the message
KeywordsCovered(m, pattern) ==
    Range(get_keywords(pattern)) \subseteq Range(get_keywords(m))

AtLeastFloor(score) == score.num * 100 >= FULL_COVERAGE_SCORE * score.den

\* C26: in knowledge-base matching, whenever a pattern's entire keyword set
\* is a subset of the message's keyword set, that pattern's score is at
\* least 0.85.
C26_CoverageFloor ==
    KnowledgeReturned =>
        LET intents == load_knowledge_base(kb_file).intents
        IN  \A kp \in PatternsOf(intents) :
               KeywordsCovered(user_message, intents[kp[1]].patterns[kp[2]])
               => AtLeastFloor(ScoreAt(intents, user_message, kp[1], kp[2]))

\* C26 for the patterns that have a keyword: whenever a pattern has at least
\* one keyword and all its keywords are keywords of the message, its score
\* is at least 0.85.
C26_CoverageFloorOfKeywords ==
    KnowledgeReturned =>
        LET intents == load_knowledge_base(kb_file).intents
        IN  \A kp \in PatternsOf(intents) :
               /\ get_keywords(intents[kp[1]].patterns[kp[2]]) # << >>
               /\ KeywordsCovered(user_message, intents[kp[1]].patterns[kp[2]])
               => AtLeastFloor(ScoreAt(intents, user_message, kp[1], kp[2]))

\* C26's case: the message covers the keywords of a pattern whose score
\* before the floor is below 0.85, and is answered with confidence 0.85
C26_Witness ==
    /\ KnowledgeReturned
    /\ LET intents == load_knowledge_base(kb_file).intents
       IN  \E kp \in PatternsOf(intents) :
              /\ get_keywords(intents[kp[1]].patterns[kp[2]]) # << >>
              /\ KeywordsCovered(user_message, intents[kp[1]].patterns[kp[2]])
              /\ ~ AtLeastFloor(UnflooredScoreAt(intents, user_message, kp[1], kp[2]))
    /\ rule_result.found
    /\ rule_result.confidence = FULL_COVERAGE_SCORE

(***************************************************************************)
(* Properties of get_ai_response, checked under Spec                       *)
(***************************************************************************)
\* C13: whatever the provider (openai, gemini, groq) and whatever the call
\* raises (a rejected key, a rate limit, no connection, a timeout, a
\* malformed reply), get_ai_response returns success = false with
\* FALLBACK_MESSAGE, the same for every exception, and chat answers
\* FALLBACK_MESSAGE with source "fallback".
C13_FailureMapping ==
    (ai_result # NotCalled /\ ai_env.outcome.kind = "raise")
    => /\ ai_result.success = FALSE
       /\ ai_result.answer = FALLBACK_MESSAGE
       /\ pc = "done"
       /\ response = FALLBACK_MESSAGE
       /\ source = "fallback"

\* C13's case: the groq endpoint answers 429 and the request ends in the
\* fallback message
C13_Witness ==
    /\ pc = "done"
    /\ ai_result # NotCalled
    /\ Lower(ai_env.LLM_PROVIDER) = "groq"
    /\ ai_env.outcome = Raise("RateLimitError")
    /\ ai_result.requests = 1
    /\ response = FALLBACK_MESSAGE
    /\ source = "fallback"

\* C14: on every provider path (openai, the gemini library, gemini over
\* REST, groq) an empty completion gives success = false with
\* FALLBACK_MESSAGE; get_ai_response never returns success = true with an
\* empty answer.
C14_NoEmptySuccess ==
    ai_result # NotCalled
    => /\ ai_result.success => ai_result.answer # ""
       /\ (ai_env.outcome.kind = "text" /\ Strip(ai_env.outcome.text) = "")
            => /\ ai_result.success = FALSE
               /\ ai_result.answer = FALLBACK_MESSAGE

\* get_ai_response received a completion that is more than white space
CompletionReceived ==
    /\ ai_result # NotCalled
    /\ ai_env.outcome.kind = "text"
    /\ Strip(ai_env.outcome.text) # ""

\* The result is success with the given answer, and chat replies with it
\* under the source "ai"
AnsweredByAI(answer) ==
    /\ ai_result.success = TRUE
    /\ ai_result.answer = answer
    /\ pc = "done"
    /\ response = answer
    /\ source = "ai"

\* C27: for a non-empty completion get_ai_response returns success = true
\* with OFF_TOPIC_MESSAGE when the lower-cased completion contains an
\* out-of-scope indicator, and success = true with the completion verbatim
\* otherwise; chat tags the response with the source "ai" in both cases.
C27_CompletionVerbatim ==
    CompletionReceived
    => AnsweredByAI(IF ContainsAny(Lower(ai_env.outcome.text), OUT_OF_SCOPE_INDICATORS)
                      THEN OFF_TOPIC_MESSAGE
                      ELSE ai_env.outcome.text)

\* C27 with the completion as the provider functions keep it: the answer is
\* OFF_TOPIC_MESSAGE when the lower-cased completion contains an indicator,
\* and otherwise the completion without its leading and trailing white
\* space; success is true and the source is "ai" in both cases.
C27_CompletionStripped ==
    CompletionReceived
    => AnsweredByAI(IF ContainsAny(Lower(ai_env.outcome.text), OUT_OF_SCOPE_INDICATORS)
                      THEN OFF_TOPIC_MESSAGE
                      ELSE Strip(ai_env.outcome.text))

\* C27's cases: a completion that names an indicator in capitals only is
\* replaced, and one in scope is passed on
C27_Witness ==
    /\ CompletionReceived
    /\ ai_env.outcome.text = "Ask GOD for good marks."
    /\ response = OFF_TOPIC_MESSAGE
    /\ source = "ai"

C27_WitnessInScope ==
    /\ CompletionReceived
    /\ ~ ContainsAny(Lower(ai_env.outcome.text), OUT_OF_SCOPE_INDICATORS)
    /\ response = "The library is open from 9 to 5."
    /\ source = "ai"

(***************************************************************************)
(* Properties of the data stores, checked under SpecKnowledge              *)
(***************************************************************************)
\* The file is absent, not parseable, or holds a JSON value that is no object
Unusable(file) == file.state # "ok" \/ ~ file.data.is_dict

\* C15: when knowledge_base.json or admin_data.json is missing or corrupt
\* (absent, not parseable as JSON, or parseable but not the expected object,
\* as save_admin_data may leave it), the load substitutes an empty structure
\* and find_answer returns a MatchResult without raising.
C15_StoresRecovered ==
    pc = "kb_done"
    => /\ Unusable(admin_file) => load_admin_data(admin_file) = EmptyAdminData
       /\ Unusable(kb_file) => load_knowledge_base(kb_file) = EmptyKnowledgeBase
       /\ (Unusable(admin_file) \/ Unusable(kb_file)) => rule_result.raised = None

(***************************************************************************)
(* Properties of the protected admin routes, checked under SpecAdmin       *)
(***************************************************************************)
ProtectedRoutes == { "admin_dashboard", "get_admin_data", "save_admin_data" }

\* C16: admin_dashboard, get_admin_data and save_admin_data execute, and the
\* admin data file is written, only in a session whose admin_authenticated
\* flag is true; the request of any other session is redirected to the login
\* route and leaves the file unchanged.
C16_ProtectedRoutes ==
    [][ /\ request'.route \in ProtectedRoutes
            => IF sessions[request'.session].admin_authenticated
                 THEN request'.reply # "redirect:admin_login"
                 ELSE /\ request'.reply = "redirect:admin_login"
                      /\ admin_file' = admin_file
        /\ admin_file' # admin_file
            => /\ request'.route = "save_admin_data"
               /\ sessions[request'.session].admin_authenticated ]_vars

\* One admin has saved the data; the browser that only passed the password
\* step posts data too and is sent to the login page
C16_Witness ==
    /\ request.route = "save_admin_data"
    /\ request.reply = "redirect:admin_login"
    /\ sessions[request.session].pending_admin_username = "admin"
    /\ \E browser \in Browsers : sessions[browser].admin_authenticated
    /\ admin_file = [state |-> "ok", data |-> AnnexAdminData]

(***************************************************************************)
(* Properties of the two-step login, checked under SpecOtp                 *)
(***************************************************************************)
\* C17: over every sequence of login, OTP-verification and logout requests,
\* the admin_authenticated flag of a session becomes true only in a step of
\* admin_verify_otp of that session in which complete_authentication
\* succeeds: for the username the session is pending for, whose password
\* authenticate_admin verified before, with the OTP drawn at the last such
\* verification and not older than OTP_VALIDITY_SECONDS.  A request to the
\* login route never sets the flag.
C17_TwoFactor ==
    [][ \A browser \in Browsers :
            (~ sessions[browser].admin_authenticated
                /\ sessions'[browser].admin_authenticated)
            => /\ request'.route = "admin_verify_otp"
               /\ request'.session = browser
               /\ request'.reply = "redirect:admin_dashboard"
               /\ sessions[browser].pending_admin_username \in AccountNames
               /\ request'.username = sessions[browser].pending_admin_username
               /\ sessions'[browser].admin_username = request'.username
               /\ otp_issued[request'.username].present
               /\ request'.secret = otp_issued[request'.username].otp
               /\ now - otp_issued[request'.username].timestamp
                    <= OTP_VALIDITY_SECONDS ]_vars

\* A session is authenticated with an OTP on the last second of its validity
C17_Witness ==
    /\ request.route = "admin_verify_otp"
    /\ request.reply = "redirect:admin_dashboard"
    /\ sessions[request.session].admin_authenticated
    /\ request.secret = otp_issued[request.username].otp
    /\ request.at - otp_issued[request.username].timestamp = OTP_VALIDITY_SECONDS

\* The OTP stored for username is not expired at time and differs from guess
WrongUnexpired(otp_data, username, guess, time) ==
    /\ otp_data[username].present
    /\ time - otp_data[username].timestamp <= OTP_VALIDITY_SECONDS
    /\ otp_data[username].otp # guess

\* C29: a verify_otp call with a wrong but unexpired OTP leaves _otp_storage,
\* _login_attempts and the pending_admin_username of the session as they
\* were: the guess is not counted toward a lockout, and the stored OTP is
\* still accepted by a call that provides it, as long as it is not expired.
C29_WrongOtpChangesNothing ==
    [][ (/\ request'.route = "admin_verify_otp"
         /\ request'.username # None
         /\ WrongUnexpired(otp_storage, request'.username, request'.secret, now))
        => /\ request'.message = "Invalid OTP. Please try again."
           /\ otp_storage' = otp_storage
           /\ login_attempts' = login_attempts
           /\ failed_logins' = failed_logins
           /\ sessions' = sessions
           /\ sessions'[request'.session].pending_admin_username = request'.username
           /\ complete_authentication(otp_storage', sessions'[request'.session],
                                      request'.username,
                                      otp_storage'[request'.username].otp,
                                      now').success ]_vars

\* C29's case: a wrong guess was turned down on the last second of the
\* validity of the OTP, which is still stored
C29_Witness ==
    /\ request.route = "admin_verify_otp"
    /\ request.message = "Invalid OTP. Please try again."
    /\ otp_storage[request.username].present
    /\ otp_storage[request.username].otp # request.secret
    /\ request.at - otp_storage[request.username].timestamp = OTP_VALIDITY_SECONDS
    /\ sessions[request.session].pending_admin_username = request.username

(***************************************************************************)
(* Properties of authenticate_admin, checked under SpecLogin               *)
(***************************************************************************)
\* A password that is not the one of the account
WrongPasswordOf(username) ==
    CHOOSE password \in Passwords : ~ verify_password(ADMIN_ACCOUNTS[username], password)

\* What authenticate_admin says now to username with a wrong password, were
\* its failures so far those on record for other
MessageWithFailuresOf(username, other) ==
    authenticate_admin([login_attempts EXCEPT ![username] = login_attempts[other]],
                       otp_storage, sessions["s1"], username,
                       WrongPasswordOf(username), "111111", now).message

\* C18: no user enumeration: for the same number of prior failed attempts,
\* authenticate_admin returns the same failure message for an unknown
\* username as for a known username with a wrong password.
C18_NoUserEnumeration ==
    [][ (request'.route = "authenticate_admin"
            /\ request'.username \notin DOMAIN ADMIN_ACCOUNTS)
        => \A known \in AccountNames :
              request'.message = MessageWithFailuresOf(known, request'.username) ]_vars

\* C19: after MAX_LOGIN_ATTEMPTS failed authenticate_admin calls in a row for
\* a username, every call for it, the one with the correct password too,
\* fails as account locked and generates no OTP until LOCKOUT_DURATION seconds
\* after the last of them; the first call after that is answered as for a
\* username with no failure on record.
C19_Lockout ==
    [][ (request'.route = "authenticate_admin"
            /\ failed_logins[request'.username].count = MAX_LOGIN_ATTEMPTS)
        => IF now - failed_logins[request'.username].last < LOCKOUT_DURATION
             THEN /\ request'.reply = FALSE
                  /\ StartsAt(request'.message, "Account locked.", 1)
                  /\ request'.otp = None
                  /\ otp_storage' = otp_storage
                  /\ sessions' = sessions
           ELSE IF request'.username \notin DOMAIN ADMIN_ACCOUNTS
             THEN /\ request'.message = "Invalid username or password."
                  /\ login_attempts'[request'.username] = Attempts(1)
           ELSE IF request'.secret = ADMIN_ACCOUNTS[request'.username].password
             THEN /\ request'.reply = TRUE
                  /\ request'.otp \in OtpDraws
             ELSE /\ request'.message
                        = "Invalid username or password. 4 attempts remaining."
                  /\ login_attempts'[request'.username] = Attempts(1) ]_vars

\* Ten minutes after the fifth failure the correct password is turned away
C19_Witness ==
    /\ request.route = "authenticate_admin"
    /\ request.username = "admin"
    /\ request.secret = ADMIN_ACCOUNTS["admin"].password
    /\ request.reply = FALSE
    /\ failed_logins["admin"].count = MAX_LOGIN_ATTEMPTS
    /\ request.at - failed_logins["admin"].last = 2 * ClockStep

(***************************************************************************)
(* Properties of concurrent logins and verifications, checked under        *)
(* SpecOtpRace                                                             *)
(***************************************************************************)
\* The entries of the log in which call was made for username
EntriesOf(call, username) ==
    { i \in 1..Len(calls) : calls[i].call = call /\ calls[i].username = username }

\* C28: an OTP made by create_otp_for_user is accepted by verify_otp at most
\* once and only within OTP_VALIDITY_SECONDS of its creation, and a password
\* login for the same username that came before the verification began
\* makes the older OTP useless, however the login and verification requests
\* interleave.
C28_OtpOnce ==
    \A username \in AccountNames :
        \A j \in EntriesOf("verify_otp", username) :
            /\ \E i \in EntriesOf("create_otp_for_user", username) :
                  /\ i < j
                  /\ calls[i].otp = calls[j].otp
                  /\ calls[j].at - calls[i].at <= OTP_VALIDITY_SECONDS
                  /\ \A newer \in EntriesOf("create_otp_for_user", username) :
                        ~ (i < newer /\ newer <= calls[j].began)
            /\ \A k \in EntriesOf("verify_otp", username) :
                  calls[k].otp = calls[j].otp => k = j

(***************************************************************************)
(* Properties of chat requests served during a save, checked under         *)
(* SpecSaving                                                              *)
(***************************************************************************)
\* What admin_data.json has held in full: the data of the start and the data
\* of every save that has opened the file
SavedVersions == { CampusAdminData } \cup Range(calls)

\* The answer of find_answer to the request of thread from the data version
AnswerFromVersion(thread, version) ==
    AnswerFrom(threads[thread].user_message, get_keywords(threads[thread].user_message),
               Lower(threads[thread].user_message), version, NoProfile, kb_file,
               "Monday", threads[thread].pick)

\* C30: a chat request whose load_admin_data meets a save_admin_data answers
\* from the admin data as it was before the save or as it is after it, never
\* from an empty or partial file in between, and every block of find_answer
\* answers from that one version.
C30_BeforeOrAfterSave ==
    \A thread \in Threads :
        threads[thread].at = "answered"
        => \E version \in SavedVersions :
              /\ threads[thread].admin_data = version
              /\ threads[thread].rule_result = AnswerFromVersion(thread, version)

=============================================================================
